---- MODULE Spec2Model ----
(***************************************************************************)
(* aoitelegram: the function registry of AoiBase (availableFunctions), the *)
(* dispatch of a command through evaluateCommand, and the handlers that    *)
(* register functions while commands are being evaluated.                  *)
(*                                                                         *)
(* A string is a sequence of one-character strings, so that toLowerCase    *)
(* and the comparison of two strings work on the characters, as in         *)
(* JavaScript.  A descriptor (DataFunction) is a record                    *)
(*   [version, name, callback, closure]; version <<>> is an absent         *)
(* version.  The fields of every record are written in the order TLC       *)
(* sorts them in (the first occurrence of each name in the module), so     *)
(* that no worker of TLC ever reorders a record another worker reads.      *)
(***************************************************************************)
EXTENDS Integers, Sequences, FiniteSets, TLC

VARIABLES
  availableFunctions,  \* AoiBase.availableFunctions: lower-cased name -> descriptor
  lastOp,              \* the last call of the registry API: its argument, the
                       \* registry it found, and what it threw or returned
  tasks,               \* the evaluateCommand calls: the dispatches in flight
                       \* and the way each one settled
  client,              \* AoiClient.functionError, AoiClient.sendMessageError
                       \* and whether functionErrorCommand was called
  emitted,             \* what the last error operation or manager call
                       \* emitted on the client and sent through the
                       \* event's send operation, in order
  database,            \* TimeoutManager: the table 'timeout', id -> entry
  timers,              \* the pending timers of setTimeout, in the order they
  outstanding,         \* per entry: accepted addTimeout calls less 'timeout' events
                       \* were set
  ready,               \* TimeoutManager: the store has emitted 'ready'
  now,                 \* Date.now()
  awaiteds,            \* Awaited.awaiteds: awaited name -> description
  commands,            \* AoiClient.commands, in the order they were set
  connected,           \* connect has registered the handlers
  intervals,           \* the intervals Awaited.handler has set, in order
  actions,             \* Action.actions, in the order they were registered
  registerCommand,     \* what AoiClient.registerCommand was given, in order
  registerTimeout,     \* what AoiClient.registerTimeout was given, in order
  registerCallback,    \* what AoiClient.registerCallback was given, in order
  handling,            \* the callback queries the listener of Action.handler took
  loops,               \* the loops of loopCommand: interval and currentIndex
  iterations,          \* the iteration of a loop each evaluateCommand call is of
  store,               \* AoiClient.database: table -> variable -> value
  invocations          \* the callbacks of the database functions in flight:
                       \* their arguments and the await they stand at

\* the loops
loopState == <<loops, iterations>>

\* the database of the client and the callbacks that use it
storeState == <<store, invocations>>

\* the state of the awaited commands
awaitedState == <<awaiteds, commands, connected, intervals>>

\* the handler registries of the other commands
commandState ==
  <<actions, registerCommand, registerTimeout, registerCallback, handling,
    loopState>>

\* the state the registry API and evaluateCommand leave alone
clientState ==
  <<client, emitted, database, timers, outstanding, ready, now, awaitedState,
    commandState, storeState>>

vars == <<availableFunctions, lastOp, tasks, clientState>>

-----------------------------------------------------------------------------
(* Strings *)

UpperCase == <<"A","B","C","D","E","F","G","H","I","J","K","L","M",
               "N","O","P","Q","R","S","T","U","V","W","X","Y","Z">>
LowerCase == <<"a","b","c","d","e","f","g","h","i","j","k","l","m",
               "n","o","p","q","r","s","t","u","v","w","x","y","z">>

\* the lower-case letter of every upper-case letter
lowerOf ==
  [c \in {UpperCase[i] : i \in DOMAIN UpperCase} |->
     LowerCase[CHOOSE i \in DOMAIN UpperCase : UpperCase[i] = c]]

\* String.prototype.toLowerCase, one character
toLowerChar(c) == IF c \in DOMAIN lowerOf THEN lowerOf[c] ELSE c

\* String.prototype.toLowerCase
toLowerCase(s) == [i \in DOMAIN s |-> toLowerChar(s[i])]

\* The UTF-16 code unit of the characters a version string is made of
charCode(c) ==
  CASE c = "." -> 46
    [] c = "0" -> 48 [] c = "1" -> 49 [] c = "2" -> 50 [] c = "3" -> 51
    [] c = "4" -> 52 [] c = "5" -> 53 [] c = "6" -> 54 [] c = "7" -> 55
    [] c = "8" -> 56 [] c = "9" -> 57

\* a > b on two strings: the comparison by code units, left to right
RECURSIVE stringGreater(_, _)
stringGreater(a, b) ==
  IF a = <<>> THEN FALSE
  ELSE IF b = <<>> THEN TRUE
  ELSE IF charCode(Head(a)) # charCode(Head(b))
       THEN charCode(Head(a)) > charCode(Head(b))
       ELSE stringGreater(Tail(a), Tail(b))

-----------------------------------------------------------------------------
(* Errors *)

\* what a call threw: "none", or the description of the AoijsError it raised
AoijsErrors == {"nameMissing", "alreadyExists", "versionTooNew",
                "doesNotExist", "parameter"}

Returned(funcs, value) == [funcs |-> funcs, value |-> value, threw |-> "none"]
Thrown(funcs, error)   == [funcs |-> funcs, value |-> "undefined", threw |-> error]

-----------------------------------------------------------------------------
(* The registry: Collection<string, DataFunction> *)

\* Collection.has
has(funcs, key) == key \in DOMAIN funcs

\* Collection.get
undefined == [undefined |-> TRUE]
get(funcs, key) == IF key \in DOMAIN funcs THEN funcs[key] ELSE undefined

\* Collection.set
set(funcs, key, value) ==
  [k \in DOMAIN funcs \cup {key} |-> IF k = key THEN value ELSE funcs[k]]

\* Collection.delete (the map afterwards; it returns has(funcs, key))
delete(funcs, key) == [k \in DOMAIN funcs \ {key} |-> funcs[k]]

\* the library version the descriptors' versions are compared with
version == <<"0", ".", "8", ".", "2">>

\* (func?.version || 0) > version: an absent version gives 0 > "0.8.2", a
\* number against a string that is no number, which is false
versionGreater(funcVersion) ==
  IF funcVersion = <<>> THEN FALSE ELSE stringGreater(funcVersion, version)

-----------------------------------------------------------------------------
(* AoiBase: the registry API.  The argument of a call is the list of the    *)
(* descriptors (or names) it was given; a call with one descriptor that is  *)
(* not in an array runs the same checks on it as the loop does on each      *)
(* element of an array.                                                     *)

\* addFunctionOne without the check that the name is free
addFunctionOneUnchecked(funcs, func) ==
  LET functionName == toLowerCase(func.name) IN
  IF functionName = <<>> THEN Thrown(funcs, "nameMissing")
  ELSE IF versionGreater(func.version) THEN Thrown(funcs, "versionTooNew")
  ELSE Returned(set(funcs, functionName, func), "this")

\* addFunctionOne with the name looked up as it was given
addFunctionOneAsGiven(funcs, func) ==
  LET functionName == toLowerCase(func.name) IN
  IF functionName = <<>> THEN Thrown(funcs, "nameMissing")
  ELSE IF has(funcs, func.name) THEN Thrown(funcs, "alreadyExists")
  ELSE IF versionGreater(func.version) THEN Thrown(funcs, "versionTooNew")
  ELSE Returned(set(funcs, functionName, func), "this")

\* addFunction, the body of its loop: one descriptor
addFunctionOne(funcs, func) ==
  LET functionName == toLowerCase(func.name) IN
  IF functionName = <<>> THEN Thrown(funcs, "nameMissing")
  ELSE IF has(funcs, functionName) THEN Thrown(funcs, "alreadyExists")
  ELSE IF versionGreater(func.version) THEN Thrown(funcs, "versionTooNew")
  ELSE Returned(set(funcs, functionName, func), "this")

\* addFunction: the descriptors in order, until one throws
RECURSIVE addFunction(_, _)
addFunction(funcs, dataFunction) ==
  IF dataFunction = <<>> THEN Returned(funcs, "this")
  ELSE LET one == addFunctionOne(funcs, Head(dataFunction)) IN
       IF one.threw # "none" THEN one
       ELSE addFunction(one.funcs, Tail(dataFunction))

\* ensureFunction, the body of its loop: one descriptor
ensureFunctionOne(funcs, func) ==
  LET functionName == toLowerCase(func.name) IN
  IF functionName = <<>> THEN Thrown(funcs, "nameMissing")
  ELSE IF versionGreater(func.version) THEN Thrown(funcs, "versionTooNew")
  ELSE Returned(set(funcs, functionName, func), "this")

\* ensureFunction
RECURSIVE ensureFunction(_, _)
ensureFunction(funcs, dataFunction) ==
  IF dataFunction = <<>> THEN Returned(funcs, "this")
  ELSE LET one == ensureFunctionOne(funcs, Head(dataFunction)) IN
       IF one.threw # "none" THEN one
       ELSE ensureFunction(one.funcs, Tail(dataFunction))

\* removeFunctionOne with the name deleted as it was given
removeFunctionOneAsGiven(funcs, name) ==
  IF ~has(funcs, name) THEN Thrown(delete(funcs, name), "doesNotExist")
  ELSE Returned(delete(funcs, name), "true")

\* removeFunction, the body of its loop: one name
removeFunctionOne(funcs, name) ==
  LET lowerCaseName == toLowerCase(name)
      hasDeleted    == has(funcs, lowerCaseName)
  IN  IF ~hasDeleted THEN Thrown(delete(funcs, lowerCaseName), "doesNotExist")
      ELSE Returned(delete(funcs, lowerCaseName), "true")

RECURSIVE removeFunctionLoop(_, _)
removeFunctionLoop(funcs, functionNames) ==
  IF functionNames = <<>> THEN Returned(funcs, "true")
  ELSE LET one == removeFunctionOne(funcs, Head(functionNames)) IN
       IF one.threw # "none" THEN one
       ELSE removeFunctionLoop(one.funcs, Tail(functionNames))

\* removeFunction
removeFunction(funcs, functionNames) ==
  IF Len(functionNames) < 1 THEN Thrown(funcs, "parameter")
  ELSE removeFunctionLoop(funcs, functionNames)

\* editFunctionOne without the check that the name is registered
editFunctionOneUnchecked(funcs, func) ==
  Returned(set(funcs, toLowerCase(func.name), func), "true")

\* editFunction, the body of its loop: one descriptor
editFunctionOne(funcs, func) ==
  LET lowerCaseName == toLowerCase(func.name) IN
  IF ~has(funcs, lowerCaseName) THEN Thrown(funcs, "doesNotExist")
  ELSE Returned(set(funcs, lowerCaseName, func), "true")

RECURSIVE editFunctionLoop(_, _)
editFunctionLoop(funcs, functionsToEdit) ==
  IF functionsToEdit = <<>> THEN Returned(funcs, "true")
  ELSE LET one == editFunctionOne(funcs, Head(functionsToEdit)) IN
       IF one.threw # "none" THEN one
       ELSE editFunctionLoop(one.funcs, Tail(functionsToEdit))

\* editFunction
editFunction(funcs, functionsToEdit) ==
  IF Len(functionsToEdit) = 0 THEN Thrown(funcs, "parameter")
  ELSE editFunctionLoop(funcs, functionsToEdit)

\* getFunction with one name: the key is looked up as it was given
getFunction(funcs, functionName) == get(funcs, functionName)

\* hasFunction with one name: the key is looked up as it was given
hasFunction(funcs, functionName) == has(funcs, functionName)

-----------------------------------------------------------------------------
(* evaluateCommand: one dispatch.  The source of a command is kept as the   *)
(* sequence of the calls it holds, in the order of the text.                *)

\* the value a settled evaluateCommand promise holds
Value(text)    == [text |-> text, kind |-> "string"]
undefinedValue == [text |-> <<>>, kind |-> "undefined"]

\* the last call an evaluator made: the name and what it resolved to
noCall == [func |-> undefined, name |-> <<>>]

idleTask ==
  [value |-> undefinedValue, error |-> "none", status |-> "idle", code |-> <<>>,
   pos |-> 0, names |-> {}, found |-> << >>, output |-> <<>>, called |-> noCall,
   settled |-> "pending", logged |-> "none", depth |-> <<>>, running |-> <<>>,
   log |-> <<>>]

\* the lower-cased names of the calls of a source
calledNames(code) == { toLowerCase(code[i]) : i \in DOMAIN code }

\* new TaskCompleter(code, eventData, this, ..., this.availableFunctions,
\* [...this.availableFunctions.keys()], useNative): the evaluator is handed the
\* registry itself and a copy of its keys.  found and called are history:
\* what the registry held, at that moment, under the names the source calls,
\* and the last call the evaluator made.
newTaskCompleter(funcs, code) ==
  [idleTask EXCEPT
     !.status = "running", !.code = code, !.pos = 1,
     !.names = DOMAIN funcs,
     !.found = [n \in calledNames(code) \cap DOMAIN funcs |-> funcs[n]]]

\* what the callback of a descriptor does when the evaluator calls it
callbackOutcome(func) ==
  CASE func.callback = "returnsA"     -> [text |-> "A", kind |-> "returned"]
    [] func.callback = "returnsB"     -> [text |-> "B", kind |-> "returned"]
    [] func.callback = "signalsError" -> [text |-> "AoiStopping", kind |-> "thrown"]
    [] func.callback = "faults"       -> [text |-> "Error", kind |-> "thrown"]
    [] OTHER                          -> [text |-> func.callback, kind |-> "returned"]

\* the evaluator on the next call of the source: a name that was not among
\* the keys it was given is left in the output as text; any other is resolved
\* against the registry it was handed, and its callback awaited
completeTaskCall(funcs, task) ==
  LET name == toLowerCase(task.code[task.pos]) IN
  IF name \notin task.names
  THEN [func |-> undefined, text |-> "unknown", kind |-> "returned"]
  ELSE IF ~has(funcs, name)
  THEN [func |-> undefined, text |-> "TypeError", kind |-> "thrown"]
  ELSE LET out == callbackOutcome(get(funcs, name)) IN
       [func |-> get(funcs, name), text |-> out.text, kind |-> out.kind]

\* one step of completeTask: the next call; the evaluation ends when the
\* call throws, and when it was the last one of the source
completeTaskStep(funcs, task) ==
  LET call == completeTaskCall(funcs, task)
      ran  == [task EXCEPT !.called = [func |-> call.func,
                                       name |-> toLowerCase(task.code[task.pos])]]
  IN  IF call.kind = "thrown"
      THEN [ran EXCEPT !.status = "thrown", !.error = call.text]
      ELSE LET next == [ran EXCEPT !.output = Append(@, call.text),
                                   !.pos = @ + 1]
           IN  IF next.pos > Len(next.code)
               THEN [next EXCEPT !.status = "returned"]
               ELSE next

\* evaluateCommand up to its first await: the evaluator is made and runs, in
\* the same turn of the event loop, as far as the first call of the source
startTask(funcs, code) == completeTaskStep(funcs, newTaskCompleter(funcs, code))

\* completeTask with no other dispatch in flight: every call of the source,
\* one after the other
RECURSIVE completeTask(_, _)
completeTask(funcs, task) ==
  IF task.status = "running"
  THEN completeTask(funcs, completeTaskStep(funcs, task))
  ELSE task

\* evaluateCommand with its catch left out: the error of the evaluation
\* rejects the promise
evaluateCommandUncaught(task) ==
  IF task.status = "returned"
  THEN [idleTask EXCEPT !.status = "settled", !.settled = "resolved",
                        !.output = task.output, !.value = Value(task.output)]
  ELSE [idleTask EXCEPT !.status = "settled", !.settled = "rejected",
                        !.output = task.output, !.error = task.error]

\* evaluateCommand handing the host what the evaluation had gathered when
\* it was aborted
evaluateCommandPartial(task) ==
  [idleTask EXCEPT !.status = "settled", !.settled = "resolved",
                   !.output = task.output, !.error = task.error,
                   !.value = Value(task.output),
                   !.logged = IF task.status = "thrown" THEN task.error ELSE "none"]

\* the end of evaluateCommand: return await taskCompleter.completeTask()
\* resolves the promise with the text of the evaluation; catch (err)
\* { console.log(err) } logs what the evaluation threw and the promise
\* resolves with undefined.  The evaluator is dropped.
evaluateCommandEnd(task) ==
  IF task.status = "returned"
  THEN [idleTask EXCEPT !.status = "settled", !.settled = "resolved",
                        !.output = task.output, !.value = Value(task.output)]
  ELSE [idleTask EXCEPT !.status = "settled", !.settled = "resolved",
                        !.output = task.output, !.error = task.error,
                        !.value = undefinedValue, !.logged = task.error]

-----------------------------------------------------------------------------
(* The evaluator on a source whose calls have calls as arguments, with      *)
(* callbacks that are asynchronous.  The source stays the sequence of its   *)
(* calls in the order of the text; depth[i] is how deep call i is nested    *)
(* (1: a segment of the source, 2: an argument of the call before it that   *)
(* is one level up).  running is the stack of the callbacks that were       *)
(* invoked and have not settled, the innermost first; log is the history of *)
(* the dispatch: <<"start", i>>, <<"end", i>>, <<"throw", i>>.              *)

\* new TaskCompleter, for a source with nested calls
newNestedTask(funcs, code, depth) ==
  [newTaskCompleter(funcs, code) EXCEPT !.depth = depth]

\* an evaluator that does not await a callback before it goes on to the
\* next call of the text
startsNextUnawaited(task) == task.pos <= Len(task.code)

\* the next call of the text is the one to evaluate now: it is an argument
\* that the innermost running callback reads, or the next segment when no
\* callback is running
startsNext(task) ==
  /\ task.pos <= Len(task.code)
  /\ task.depth[task.pos] = Len(task.running) + 1

\* the evaluator resolves the next call against the registry and invokes
\* its callback
invokeCallback(funcs, task) ==
  LET name == toLowerCase(task.code[task.pos]) IN
  IF name \notin task.names
  THEN [task EXCEPT !.pos = @ + 1,
                    !.output = IF task.depth[task.pos] = 1
                               THEN Append(@, "unknown") ELSE @]
  ELSE IF ~has(funcs, name)
  THEN [task EXCEPT !.status = "thrown", !.error = "TypeError",
                    !.log = Append(@, <<"throw", task.pos>>)]
  ELSE [task EXCEPT !.called = [func |-> get(funcs, name), name |-> name],
                    !.running = <<[func |-> get(funcs, name), pos |-> task.pos]>> \o @,
                    !.log = Append(@, <<"start", task.pos>>),
                    !.pos = @ + 1]

\* the innermost running callback settles: what it returned is substituted
\* (the text of a segment goes to the output), what it threw ends the
\* evaluation
settleCallback(task) ==
  LET top == Head(task.running)
      out == callbackOutcome(top.func)
  IN  IF out.kind = "thrown"
      THEN [task EXCEPT !.status = "thrown", !.error = out.text,
                        !.log = Append(@, <<"throw", top.pos>>)]
      ELSE [task EXCEPT !.running = Tail(@),
                        !.log = Append(@, <<"end", top.pos>>),
                        !.output = IF task.depth[top.pos] = 1
                                   THEN Append(@, out.text) ELSE @]

\* one step of completeTask on a source with nested calls
evaluatorStep(funcs, task) ==
  LET next == IF startsNext(task) THEN invokeCallback(funcs, task)
              ELSE settleCallback(task)
  IN  IF /\ next.status = "running"
         /\ next.pos > Len(next.code)
         /\ next.running = <<>>
      THEN [next EXCEPT !.status = "returned"]
      ELSE next

\* evaluateCommand up to its first await, on a source with nested calls
startNestedTask(funcs, code, depth) ==
  evaluatorStep(funcs, newNestedTask(funcs, code, depth))

-----------------------------------------------------------------------------
(* loadFunctionsLib and the handlers that register functions *)

\* loadFunctionsLib, processFile: one file of the library
processFile(funcs, dataFunction, disableFunctions) ==
  IF dataFunction.name = <<>> THEN funcs
  ELSE LET dataFunctionName == toLowerCase(dataFunction.name) IN
       IF \E i \in DOMAIN disableFunctions : disableFunctions[i] = dataFunctionName
       THEN funcs
       ELSE set(funcs, dataFunctionName, dataFunction)

\* loadFunctionsLib: every file of the function directory
RECURSIVE loadFunctionsLib(_, _, _)
loadFunctionsLib(items, funcs, disableFunctions) ==
  IF items = <<>> THEN funcs
  ELSE loadFunctionsLib(Tail(items),
                        processFile(funcs, Head(items), disableFunctions),
                        disableFunctions)

\* the functions a tick of the interval of loopCommand registers; the
\* callbacks of $break and $index close over the loop's own intervalId and
\* currentIndex
loopFunctions(loop) ==
  << [version |-> <<>>, name |-> <<"$","b","r","e","a","k">>,
      callback |-> "clearInterval", closure |-> loop],
     [version |-> <<>>, name |-> <<"$","c","o","n","t","i","n","u","e">>,
      callback |-> "isError", closure |-> "none"],
     [version |-> <<>>, name |-> <<"$","i","n","d","e","x">>,
      callback |-> "currentIndex", closure |-> loop] >>

\* the functions a tick of the interval of an awaited registers
awaitedFunctions(loop) ==
  << [version |-> <<>>,
      name |-> <<"$","a","w","a","i","t","e","d","D","a","t","a">>,
      callback |-> "parsedAwaitedData", closure |-> loop] >>
  \o loopFunctions(loop)

\* the function the handler of the database event 'create' registers
newVariableFunction(newVariable) ==
  << [version |-> <<>>,
      name |-> <<"$","n","e","w","V","a","r","i","a","b","l","e">>,
      callback |-> "newVariable", closure |-> newVariable] >>

-----------------------------------------------------------------------------
(* Inputs *)

MaxList  == 2    \* the longest array given to a call of the registry API
MaxTasks == 1    \* the evaluateCommand calls that are followed at a time

DataFunction(name, ver, callback) ==
  [version |-> ver, name |-> name, callback |-> callback, closure |-> "none"]

\* the descriptors the host registers
UserFunctions ==
  { DataFunction(<<"$","f">>, <<>>, "returnsA"),
    DataFunction(<<"$","F">>, <<"0",".","8",".","2">>, "returnsB"),
    DataFunction(<<"$","g">>, <<"0",".","1","0",".","0">>, "signalsError"),
    DataFunction(<<"$","G">>, <<"0",".","9",".","0">>, "faults"),
    DataFunction(<<>>, <<>>, "returnsA") }

\* the names the host asks for
UserNames == { <<"$","f">>, <<"$","F">>, <<"$","s","e","t","V","a","r">> }

\* the functions of the library directory
Library == << DataFunction(<<"$","s","e","t","V","a","r">>, <<>>, "setVar") >>

\* the arrays of at most n elements of S
ListsOf(S, n) == UNION { [1..k -> S] : k \in 0..n }

\* the sources of the commands
Sources == { << <<"$","f">>, <<"$","g">> >>,
             << <<"$","f">>, <<"$","f">> >> }

\* the one-element arrays of S
OneOf(S) == { <<x>> : x \in S }

\* the descriptors and the names the host uses while commands are dispatched
DispatchFunctions ==
  { DataFunction(<<"$","f">>, <<>>, "returnsA"),
    DataFunction(<<"$","F">>, <<>>, "returnsB"),
    DataFunction(<<"$","g">>, <<>>, "signalsError") }

DispatchNames == { <<"$","f">>, <<"$","g">> }

\* the descriptors and the names the host uses while the handlers run
HandlerFunctions ==
  { DataFunction(<<"$","f">>, <<>>, "returnsA"),
    DataFunction(<<"$","I","n","d","e","x">>, <<>>, "returnsB") }

HandlerNames == { <<"$","b","r","e","a","k">> }

\* the loops, the awaiteds and the variables of the handlers, and their code
Loops        == {"loop1", "loop2"}
Awaiteds     == {"awaited1"}
NewVariables == {"variable1"}

\* the ticks of the interval of a loop that are followed
MaxTicks == 2

\* a loop loopCommand was not called for.  ticks is history: how many times
\* the interval has fired
noLoop == [code |-> <<>>, interval |-> "none", currentIndex |-> 1, ticks |-> 0]

\* an evaluateCommand call that is not of a loop.  iteration, index and
\* cleared are history: which tick of the loop started the call, what $index
\* returned to it and whose interval its $break cleared
noIteration == [loop |-> "none", iteration |-> 0, index |-> 0, cleared |-> "none"]

\* the codes of the loops: one that stops the loop, one that goes on
LoopBodies ==
  { << <<"$","i","n","d","e","x">>, <<"$","b","r","e","a","k">> >>,
    << <<"$","f">>, <<"$","i","n","d","e","x">> >> }

LoopCode           == << <<"$","i","n","d","e","x">>, <<"$","b","r","e","a","k">> >>
AwaitedCode        == << <<"$","b","r","e","a","k">> >>
VariableCreateCode == << <<"$","n","e","w","v","a","r","i","a","b","l","e">> >>

\* the calls of evaluateCommand that are followed
TaskIds  == DOMAIN tasks

\* the events a callback signals an error on: with and without send
Events == { [send |-> TRUE], [send |-> FALSE] }

\* the descriptor and the name the host uses while errors are signalled
ErrorFunctions ==
  { DataFunction(<<"$","h","a","n","d","l","e","E","r","r","o","r">>, <<>>, "returnsA") }

ErrorNames == { f.name : f \in ErrorFunctions }

\* the code given to functionErrorCommand
FunctionErrorCode == << <<"$","h","a","n","d","l","e","E","r","r","o","r">>,
                        <<"$","h","a","n","d","l","e","E","r","r","o","r">> >>

\* the time addTimeout refuses: context.milliseconds <= 5000
minimumTimeout == 5000

\* the time addAwaited refuses: options.milliseconds <= 50
minimumAwaited == 50

\* the intervals of awaiteds that are followed
MaxIntervals == 2

\* the names, the codes, the times and the data the host gives to
\* awaitedCommand and addAwaited; "" and <<>> are a missing name and code
AwaitedNames        == {"a1", "a2"}
AwaitedCodes        == { << <<"$","b","r","e","a","k">> >>,
                         << <<"$","i","n","d","e","x">> >> }
AwaitedMilliseconds == {50, 51}
AwaitedData         == {"a", "b"}

\* the commands that are followed
MaxCommands == 2

\* what the host gives to addCommand, addAction, timeoutCommand and
\* addCallback; "" and <<>> are a missing option
CommandNames   == {"", "c1"}
CommandCodes   == { <<>>, << <<"$","f">> >> }
ActionDatas    == {"", "d1"}
ActionAnswers  == BOOLEAN
TimeoutNames   == {"", "t1"}
CallbackNames  == {"", "cb1"}
CallbackTypes  == {"aoitelegram", "js"}
CallbackBodies == {"", "callback"}

\* the callback queries that are followed at a time
MaxQueries == 1

\* the data of the inline buttons and of the actions, and the codes of the
\* actions: one that returns and one that signals an error
QueryDatas  == {"d1", "d2"}
ActionCodes == { << <<"$","f">>, <<"$","f">> >>, << <<"$","g">> >> }

\* no callback query in hand.  registeredActions and evaluations are history: Action.actions
\* when the query arrived, and the evaluations the listener started and saw
\* settle, <<"start", i>> and <<"end", i>> for the i-th matching action
idleHandling ==
  [queryData |-> "", registeredActions |-> <<>>, matching |-> <<>>, at |-> 0,
   phase |-> "idle", evaluations |-> <<>>]

\* the function directory of the library, and the names the host may list in
\* disableFunctions: as the function declares its name, lower-cased, and
\* upper-cased
BuiltinLibrary ==
  << DataFunction(<<"$","s","e","t","V","a","r">>, <<>>, "setVar"),
     DataFunction(<<"$","s","t","r","i","n","g","A","t">>, <<>>, "stringAt") >>

DisableNames ==
  { <<"$","s","e","t","V","a","r">>, <<"$","s","e","t","v","a","r">>,
    <<"$","s","t","r","i","n","g","a","t">>, <<"$","S","T","R","I","N","G","A","T">> }

BuiltinSources ==
  { << <<"$","s","e","t","V","a","r">> >>,
    << <<"$","s","t","r","i","n","g","A","t">>, <<"$","s","e","t","V","a","r">> >> }

\* sources with nested calls: $f$f, $f[$f]$f, $f[$f;$f], $f$f[$g]$f, $g$f
NestedSources ==
  LET f == <<"$","f">>
      g == <<"$","g">>
  IN  { [code |-> <<f, f>>,       depth |-> <<1, 1>>],
        [code |-> <<f, f, f>>,    depth |-> <<1, 2, 1>>],
        [code |-> <<f, f, f>>,    depth |-> <<1, 2, 2>>],
        [code |-> <<f, f, g, f>>, depth |-> <<1, 1, 2, 1>>],
        [code |-> <<g, f>>,       depth |-> <<1, 1>>] }

\* the bounds of the timeouts that are followed
MaxTimers == 2       \* the timers pending at a time
MaxTime   == 5001    \* the host adds no timeout after this time
TickMs    == 5001    \* the time that passes in one step of the clock

\* the ids, the times and the data the host gives to addTimeout
TimeoutIds   == {"t1", "t2"}
Milliseconds == {5000, 5001}
TimeoutData  == {"a", "b"}

\* a library whose functions return, signal an error and fault, and the
\* sources of the commands that call them
ConcurrentLibrary ==
  << DataFunction(<<"$","f">>, <<>>, "returnsA"),
     DataFunction(<<"$","g">>, <<>>, "signalsError"),
     DataFunction(<<"$","h">>, <<>>, "faults") >>

ConcurrentSources == { << <<"$","f">>, <<"$","f">> >>,
                       << <<"$","f">>, <<"$","g">> >>,
                       << <<"$","f">>, <<"$","h">> >>,
                       << <<"$","g">> >>,
                       << <<"$","h">> >> }

-----------------------------------------------------------------------------
(* The client *)

\* a call of the registry API, as the caller saw it; by is the caller:
\* the host, or the handler that made the call
CallBy(by, op, arg, before, res) ==
  [value |-> res.value, threw |-> res.threw, func |-> undefined, by |-> by,
   op |-> op, arg |-> arg, before |-> before]

Call(op, arg, before, res) == CallBy("host", op, arg, before, res)

\* the AoiClient constructor: this.functionError = parameters.functionError,
\* this.sendMessageError = parameters.sendMessageError; no listener of
\* 'functionError' yet
newClient(functionError, sendMessageError) ==
  [functionError |-> functionError, sendMessageError |-> sendMessageError,
   functionErrorCommand |-> FALSE]

(* MessageError: the operations a callback signals an error with.  An event *)
(* is known by whether it has a send operation; telegram is the client.     *)

ErrorOps == {"errorArgs", "errorVar", "errorTable", "errorArray", "customError"}

\* the descriptor createMessageError registers for the listeners of
\* 'functionError': its callback closes over the details of the error
handleError(op) ==
  [version |-> <<>>, name |-> <<"$","h","a","n","d","l","e","E","r","r","o","r">>,
   callback |-> "handleError", closure |-> op]

\* what a call did before it returned or threw: what it emitted and sent
Outcome(res, effects) ==
  [funcs |-> res.funcs, value |-> res.value, threw |-> res.threw,
   effects |-> effects]

\* the registry the listeners of 'functionError' run on
duringFunctionError(funcs, op) == addFunction(funcs, <<handleError(op)>>).funcs

\* createMessageError
createMessageError(funcs, telegram, event, op) ==
  IF ~telegram.sendMessageError /\ telegram.functionError
  THEN LET added == addFunction(funcs, <<handleError(op)>>) IN
       IF added.threw # "none" THEN Outcome(added, <<>>)
       ELSE LET removed == removeFunction(added.funcs, <<handleError(op).name>>) IN
            IF removed.threw # "none"
            THEN Outcome(removed, << <<"functionError", op>> >>)
            ELSE Outcome(Thrown(removed.funcs, "AoiStopping"),
                         << <<"functionError", op>> >>)
  ELSE IF ~event.send THEN Outcome(Thrown(funcs, "ConsoleError"), <<>>)
  ELSE Outcome(Returned(funcs, "text"), <<>>)

\* an error operation that raises AoiStopping before it sends the text
errorOpThrowsFirst(funcs, telegram, event, op) ==
  LET text == createMessageError(funcs, telegram, event, op) IN
  IF text.threw # "none" THEN text
  ELSE Outcome(Thrown(funcs, "AoiStopping"), <<>>)

\* errorArgs, errorVar, errorTable, errorArray, customError:
\* const text = this.createMessageError(...); this.telegramInstance.send(text,
\* ...); throw new AoiStopping(op)
errorOp(funcs, telegram, event, op) ==
  LET text == createMessageError(funcs, telegram, event, op) IN
  IF text.threw # "none" THEN text
  ELSE Outcome(Thrown(funcs, "AoiStopping"), << <<"send", op>> >>)

\* AoiClient.database, the storage of the variables: has, hasTable, get and
\* set answer for a table or a key that is missing, they never throw
databaseHasTable(tables, table) == table \in DOMAIN tables

databaseHas(tables, table, key) ==
  table \in DOMAIN tables /\ key \in DOMAIN tables[table]

databaseGet(tables, table, key) ==
  IF databaseHas(tables, table, key) THEN tables[table][key] ELSE undefined

databaseSet(tables, table, key, value) ==
  IF table \in DOMAIN tables
  THEN [tables EXCEPT ![table] = (key :> value) @@ @]
  ELSE tables

\* the tables of the client after connect: database.table[0] with the
\* variable the host declared
initialTables == ("main" :> ("v1" :> "a"))

\* no callback of a database function in flight
noInvocation ==
  [event |-> [send |-> FALSE], callee |-> "none", step |-> "none",
   args |-> <<>>, userCooldown |-> 0]

\* the registry after construction, and no dispatch in flight
InitRegistry ==
  /\ availableFunctions = loadFunctionsLib(Library, << >>, <<>>)
  /\ lastOp = Call("constructor", <<>>, << >>, Returned(<< >>, "this"))
  /\ tasks = [t \in 1..MaxTasks |-> idleTask]

\* a client made without functionError and sendMessageError, an empty store,
\* no timer and no awaited
InitClient ==
  /\ client = newClient(FALSE, FALSE)
  /\ emitted = <<>>
  /\ database = << >>
  /\ timers = <<>>
  /\ outstanding = << >>
  /\ ready = FALSE
  /\ now = 0
  /\ awaiteds = << >>
  /\ commands = <<>>
  /\ connected = FALSE
  /\ intervals = <<>>
  /\ actions = <<>>
  /\ registerCommand = <<>>
  /\ registerTimeout = <<>>
  /\ registerCallback = <<>>
  /\ handling = [q \in 1..MaxQueries |-> idleHandling]
  /\ loops = [loop \in Loops |-> noLoop]
  /\ iterations = [t \in 1..(MaxTasks + 1) |-> noIteration]
  /\ store = initialTables
  /\ invocations = [t \in 1..(MaxTasks + 1) |-> noInvocation]

Init == InitRegistry /\ InitClient

AddFunction(arrays) ==
  \E dataFunction \in arrays :
    LET res == addFunction(availableFunctions, dataFunction) IN
    /\ availableFunctions' = res.funcs
    /\ lastOp' = Call("addFunction", dataFunction, availableFunctions, res)
    /\ UNCHANGED <<tasks, clientState>>

EnsureFunction(arrays) ==
  \E dataFunction \in arrays :
    LET res == ensureFunction(availableFunctions, dataFunction) IN
    /\ availableFunctions' = res.funcs
    /\ lastOp' = Call("ensureFunction", dataFunction, availableFunctions, res)
    /\ UNCHANGED <<tasks, clientState>>

EditFunction(arrays) ==
  \E dataFunction \in arrays :
    LET res == editFunction(availableFunctions, dataFunction) IN
    /\ availableFunctions' = res.funcs
    /\ lastOp' = Call("editFunction", dataFunction, availableFunctions, res)
    /\ UNCHANGED <<tasks, clientState>>

RemoveFunction(arrays) ==
  \E functionName \in arrays :
    LET res == removeFunction(availableFunctions, functionName) IN
    /\ availableFunctions' = res.funcs
    /\ lastOp' = Call("removeFunction", functionName, availableFunctions, res)
    /\ UNCHANGED <<tasks, clientState>>

HasFunction ==
  \E functionName \in UserNames :
    /\ lastOp' = Call("hasFunction", <<functionName>>, availableFunctions,
                      Returned(availableFunctions,
                               IF hasFunction(availableFunctions, functionName)
                               THEN "true" ELSE "false"))
    /\ UNCHANGED <<availableFunctions, tasks, clientState>>

GetFunction ==
  \E functionName \in UserNames :
    /\ lastOp' = [Call("getFunction", <<functionName>>, availableFunctions,
                       Returned(availableFunctions, "function"))
                  EXCEPT !.func = getFunction(availableFunctions, functionName)]
    /\ UNCHANGED <<availableFunctions, tasks, clientState>>

\* the slot a new evaluateCommand call is followed in
isFree(t) == tasks[t].status \in {"idle", "settled"}
freeTask  == CHOOSE t \in TaskIds :
               isFree(t) /\ \A u \in TaskIds : isFree(u) => t <= u

\* evaluateCommand handing the evaluator the registry as it was before the
\* last call of the registry API
EvaluateCommandStale ==
  /\ \E t \in TaskIds : isFree(t)
  /\ \E code \in Sources :
       tasks' = [tasks EXCEPT ![freeTask] = startTask(lastOp.before, code)]
  /\ UNCHANGED <<availableFunctions, lastOp, clientState>>

\* evaluateCommand with one evaluator for every call: a new call hands the
\* evaluations in flight its own source
EvaluateCommandShared(sources) ==
  /\ \E t \in TaskIds : isFree(t)
  /\ \E code \in sources :
       tasks' = [t \in TaskIds |->
                   IF t = freeTask \/ tasks[t].status = "running"
                   THEN startTask(availableFunctions, code)
                   ELSE tasks[t]]
  /\ UNCHANGED <<availableFunctions, lastOp, clientState>>

\* an event of the host: evaluateCommand starts
EvaluateCommandOf(sources) ==
  /\ \E t \in TaskIds : isFree(t)
  /\ \E code \in sources :
       tasks' = [tasks EXCEPT ![freeTask] = startTask(availableFunctions, code)]
  /\ UNCHANGED <<availableFunctions, lastOp, clientState>>

EvaluateCommand == EvaluateCommandOf(Sources)

\* a dispatch goes on, after an await, until its next await
CompleteTask ==
  \E t \in TaskIds :
    /\ tasks[t].status = "running"
    /\ tasks' = [tasks EXCEPT ![t] = completeTaskStep(availableFunctions, tasks[t])]
    /\ UNCHANGED <<availableFunctions, lastOp, clientState>>

\* the promise of an evaluateCommand call settles
EvaluateCommandEnd ==
  \E t \in TaskIds :
    /\ tasks[t].status \in {"returned", "thrown"}
    /\ tasks' = [tasks EXCEPT ![t] = evaluateCommandEnd(tasks[t])]
    /\ UNCHANGED <<availableFunctions, lastOp, clientState>>

\* a handler registers its functions with ensureFunction and starts the
\* evaluation of its code, in one turn of the event loop
handlerTick(by, functions, code) ==
  LET res == ensureFunction(availableFunctions, functions) IN
  /\ \E t \in TaskIds : isFree(t)
  /\ availableFunctions' = res.funcs
  /\ lastOp' = CallBy(by, "ensureFunction", functions, availableFunctions, res)
  /\ tasks' = [tasks EXCEPT ![freeTask] = startTask(res.funcs, code)]
  /\ UNCHANGED clientState

\* the interval of a loopCommand fires
LoopTick ==
  \E loop \in Loops :
    handlerTick("loopCommand", loopFunctions(loop), LoopCode)

\* the interval of an awaited fires
AwaitedTick ==
  \E awaited \in Awaiteds :
    handlerTick("awaited", awaitedFunctions(awaited), AwaitedCode)

\* the database emits 'create'
VariableCreate ==
  \E newVariable \in NewVariables :
    handlerTick("variableCreate", newVariableFunction(newVariable),
                VariableCreateCode)

\* the host works on the registry: arrays of descriptors and of names
Next ==
  \/ AddFunction(ListsOf(UserFunctions, MaxList))
  \/ EnsureFunction(ListsOf(UserFunctions, MaxList))
  \/ EditFunction(ListsOf(UserFunctions, MaxList))
  \/ RemoveFunction(ListsOf(UserNames, MaxList))
  \/ HasFunction
  \/ GetFunction

Spec == Init /\ [][Next]_vars

\* commands are dispatched while the host works on the registry, one
\* descriptor or one name a call
NextDispatch ==
  \/ AddFunction(OneOf(DispatchFunctions))
  \/ EnsureFunction(OneOf(DispatchFunctions))
  \/ EditFunction(OneOf(DispatchFunctions))
  \/ RemoveFunction(OneOf(DispatchNames))
  \/ EvaluateCommand
  \/ CompleteTask
  \/ EvaluateCommandEnd

SpecDispatch == Init /\ [][NextDispatch]_vars

\* the handlers register their functions and evaluate their code while the
\* host works on the registry
NextHandlers ==
  \/ AddFunction(OneOf(HandlerFunctions))
  \/ EnsureFunction(OneOf(HandlerFunctions))
  \/ EditFunction(OneOf(HandlerFunctions))
  \/ RemoveFunction(OneOf(HandlerNames))
  \/ LoopTick
  \/ AwaitedTick
  \/ VariableCreate
  \/ CompleteTask
  \/ EvaluateCommandEnd

SpecHandlers == Init /\ [][NextHandlers]_vars

\* commands whose functions return, signal an error and fault are dispatched
\* while others are in flight
InitConcurrent ==
  /\ availableFunctions = loadFunctionsLib(ConcurrentLibrary, << >>, <<>>)
  /\ lastOp = Call("constructor", <<>>, << >>, Returned(<< >>, "this"))
  /\ tasks = [t \in 1..(MaxTasks + 1) |-> idleTask]
  /\ InitClient

EvaluateCommandConcurrent == EvaluateCommandOf(ConcurrentSources)

NextConcurrent ==
  \/ EvaluateCommandConcurrent
  \/ CompleteTask
  \/ EvaluateCommandEnd

SpecConcurrent == InitConcurrent /\ [][NextConcurrent]_vars

\* new AoiClient({disableFunctions}): the registry is loaded from the
\* function directory, without the functions the host disabled
InitDisabled ==
  /\ \E disableFunctions \in ListsOf(DisableNames, MaxList) :
       /\ availableFunctions = loadFunctionsLib(BuiltinLibrary, << >>, disableFunctions)
       /\ lastOp = Call("constructor", <<disableFunctions>>, << >>,
                        Returned(<< >>, "this"))
  /\ tasks = [t \in 1..MaxTasks |-> idleTask]
  /\ InitClient

EvaluateCommandBuiltin == EvaluateCommandOf(BuiltinSources)

NextDisabled ==
  \/ EvaluateCommandBuiltin
  \/ CompleteTask
  \/ EvaluateCommandEnd

SpecDisabled == InitDisabled /\ [][NextDisabled]_vars

\* an event of the host: evaluateCommand starts on a source with nested calls
EvaluateCommandNested ==
  /\ \E t \in TaskIds : isFree(t)
  /\ \E source \in NestedSources :
       tasks' = [tasks EXCEPT ![freeTask] =
                   startNestedTask(availableFunctions, source.code, source.depth)]
  /\ UNCHANGED <<availableFunctions, lastOp, clientState>>

\* a dispatch goes on: the evaluator invokes the next callback, or the
\* callback it awaits settles
EvaluatorStep ==
  \E t \in TaskIds :
    /\ tasks[t].status = "running"
    /\ tasks' = [tasks EXCEPT ![t] = evaluatorStep(availableFunctions, tasks[t])]
    /\ UNCHANGED <<availableFunctions, lastOp, clientState>>

NextEvaluator ==
  \/ EvaluateCommandNested
  \/ EvaluatorStep
  \/ EvaluateCommandEnd

SpecEvaluator == InitConcurrent /\ [][NextEvaluator]_vars

\* functionErrorCommand: a listener of 'functionError' is registered
FunctionErrorCommand ==
  /\ ~client.functionErrorCommand
  /\ client' = [client EXCEPT !.functionErrorCommand = TRUE]
  /\ UNCHANGED <<availableFunctions, lastOp, tasks, emitted, database, timers, outstanding,
                 ready, now, awaitedState, commandState, storeState>>

\* a callback signals an error on an event.  When 'functionError' is emitted
\* the listener of functionErrorCommand runs inside the emit: functionError =
\* false, evaluateCommand as far as its first await, functionError = true.
SignalError ==
  \E op \in ErrorOps, event \in Events :
    LET res       == errorOp(availableFunctions, client, event, op)
        listening == /\ client.functionErrorCommand
                     /\ \E i \in DOMAIN res.effects :
                          res.effects[i][1] = "functionError"
    IN  /\ listening => \E t \in TaskIds : isFree(t)
        /\ availableFunctions' = res.funcs
        /\ lastOp' = CallBy("callback", op, <<event>>, availableFunctions, res)
        /\ emitted' = res.effects
        /\ tasks' = IF listening
                    THEN [tasks EXCEPT ![freeTask] =
                            startTask(duringFunctionError(availableFunctions, op),
                                      FunctionErrorCode)]
                    ELSE tasks
        /\ client' = IF listening
                     THEN [client EXCEPT !.functionError = TRUE]
                     ELSE client
        /\ UNCHANGED <<database, timers, outstanding, ready, now, awaitedState, commandState, storeState>>

\* callbacks signal errors while the host works on the registry; the client
\* was constructed with any functionError and sendMessageError
InitErrors ==
  /\ InitRegistry
  /\ \E functionError \in BOOLEAN, sendMessageError \in BOOLEAN :
       client = newClient(functionError, sendMessageError)
  /\ emitted = <<>>
  /\ database = << >>
  /\ timers = <<>>
  /\ outstanding = << >>
  /\ ready = FALSE
  /\ now = 0
  /\ awaiteds = << >>
  /\ commands = <<>>
  /\ connected = FALSE
  /\ intervals = <<>>
  /\ actions = <<>>
  /\ registerCommand = <<>>
  /\ registerTimeout = <<>>
  /\ registerCallback = <<>>
  /\ handling = [q \in 1..MaxQueries |-> idleHandling]
  /\ loops = [loop \in Loops |-> noLoop]
  /\ iterations = [t \in 1..(MaxTasks + 1) |-> noIteration]
  /\ store = initialTables
  /\ invocations = [t \in 1..(MaxTasks + 1) |-> noInvocation]

NextErrors ==
  \/ AddFunction(OneOf(ErrorFunctions))
  \/ RemoveFunction(OneOf(ErrorNames))
  \/ FunctionErrorCommand
  \/ SignalError
  \/ CompleteTask
  \/ EvaluateCommandEnd

SpecErrors == InitErrors /\ [][NextErrors]_vars

-----------------------------------------------------------------------------
(* TimeoutManager *)

\* ValueDatabase: const data = { ...options, id, date: Date.now() }
ValueDatabase(id, milliseconds, data, date) ==
  [id |-> id, milliseconds |-> milliseconds, data |-> data, date |-> date]

\* setTimeout(callback, context.milliseconds): the callback closes over the
\* entry, and runs when the time has passed
setTimeout(context, date) == [context |-> context, due |-> date + context.milliseconds]

\* what a call of the manager left: the table, the timers, what was emitted
\* on the client, and what was thrown
Managed(table, pending, effects, threw) ==
  [threw |-> threw, effects |-> effects, table |-> table, pending |-> pending]

\* the listener of 'addTimeout' with the timer left out
addTimeoutListenerNoTimer(table, pending, context, date) ==
  IF context.milliseconds <= minimumTimeout
  THEN Managed(table, pending, <<>>, "timeout")
  ELSE Managed(table, pending, <<>>, "none")

\* the listener of 'addTimeout'
addTimeoutListener(table, pending, context, date) ==
  IF context.milliseconds <= minimumTimeout
  THEN Managed(table, pending, <<>>, "timeout")
  ELSE Managed(table, Append(pending, setTimeout(context, date)), <<>>, "none")

\* addTimeout writing the table before it emits 'addTimeout'
addTimeoutSetFirst(table, pending, id, milliseconds, data, date) ==
  LET context  == ValueDatabase(id, milliseconds, data, date)
      written  == (id :> context) @@ table
      listened == addTimeoutListener(written, pending, context, date)
  IN  Managed(written, listened.pending, << <<"addTimeout", context>> >>,
              listened.threw)

\* addTimeout: this.telegram.emit("addTimeout", data), and what the listener
\* throws leaves the emit and the call; then this.set("timeout", id, data)
addTimeout(table, pending, id, milliseconds, data, date) ==
  LET context  == ValueDatabase(id, milliseconds, data, date)
      listened == addTimeoutListener(table, pending, context, date)
  IN  IF listened.threw # "none"
      THEN Managed(table, pending, << <<"addTimeout", context>> >>, listened.threw)
      ELSE Managed((id :> context) @@ table, listened.pending,
                   << <<"addTimeout", context>> >>, "none")

\* this.delete("timeout", id)
deleteTimeout(table, id) == [k \in DOMAIN table \ {id} |-> table[k]]

\* the callback of a timer, and the 'ready' listener on an entry whose time
\* has passed: emit("timeout", this.telegram, context), then
\* this.delete("timeout", context.id)
timeout(table, context) ==
  Managed(deleteTimeout(table, context.id), <<>>, << <<"timeout", context>> >>,
          "none")

\* the 'ready' listener, on the entries in the order forEach gives them
RECURSIVE readyListener(_, _, _, _, _)
readyListener(table, pending, effects, keys, date) ==
  IF keys = <<>> THEN Managed(table, pending, effects, "none")
  ELSE LET key == Head(keys) IN
       IF key \notin DOMAIN table
       THEN readyListener(table, pending, effects, Tail(keys), date)
       ELSE LET timeoutData   == table[key]
                remainingTime == timeoutData.date + timeoutData.milliseconds - date
            IN  IF remainingTime > 0
                THEN readyListener(table,
                                   Append(pending, setTimeout(timeoutData, date)),
                                   effects, Tail(keys), date)
                ELSE LET fired == timeout(table, timeoutData) IN
                     readyListener(fired.table, pending, effects \o fired.effects,
                                   Tail(keys), date)

\* history: an addTimeout call was accepted for the entry (n = 1), a
\* 'timeout' event was emitted with it (n = -1); an entry that has had as
\* many events as accepted calls is not kept
counted(count, context, n) ==
  LET before == IF context \in DOMAIN count THEN count[context] ELSE 0 IN
  IF before + n = 0
  THEN [c \in DOMAIN count \ {context} |-> count[c]]
  ELSE [c \in DOMAIN count \cup {context} |->
          IF c = context THEN before + n ELSE count[c]]

\* history: the 'timeout' events among what a step emitted
RECURSIVE countedEvents(_, _)
countedEvents(count, effects) ==
  IF effects = <<>> THEN count
  ELSE countedEvents(IF Head(effects)[1] = "timeout"
                     THEN counted(count, Head(effects)[2], -1)
                     ELSE count,
                     Tail(effects))

\* the orders forEach may give the keys of a table in
OrdersOf(S) ==
  { order \in [1..Cardinality(S) -> S] :
      \A i, j \in 1..Cardinality(S) : i # j => order[i] # order[j] }

\* a call that was not made on the registry, as the caller saw it
ManagerCall(op, arg, res) ==
  CallBy("host", op, arg, availableFunctions,
         [funcs |-> availableFunctions, value |-> "undefined", threw |-> res.threw])

\* the host calls addTimeout
AddTimeout ==
  \E id \in TimeoutIds, milliseconds \in Milliseconds, data \in TimeoutData :
    LET res == addTimeout(database, timers, id, milliseconds, data, now) IN
    /\ now <= MaxTime
    /\ Len(timers) < MaxTimers
    /\ database' = res.table
    /\ timers' = res.pending
    /\ emitted' = res.effects
    /\ lastOp' = ManagerCall("addTimeout", <<ValueDatabase(id, milliseconds, data, now)>>, res)
    /\ outstanding' = IF res.threw = "none"
                      THEN counted(outstanding,
                                   ValueDatabase(id, milliseconds, data, now), 1)
                      ELSE outstanding
    /\ UNCHANGED <<availableFunctions, tasks, client, ready, now, awaitedState, commandState, storeState>>

\* the store has connected: 'ready'
Ready ==
  /\ ~ready
  /\ \E keys \in OrdersOf(DOMAIN database) :
       LET res == readyListener(database, timers, <<>>, keys, now) IN
       /\ database' = res.table
       /\ timers' = res.pending
       /\ emitted' = res.effects
       /\ lastOp' = ManagerCall("ready", keys, res)
       /\ outstanding' = countedEvents(outstanding, res.effects)
  /\ ready' = TRUE
  /\ UNCHANGED <<availableFunctions, tasks, client, now, awaitedState, commandState, storeState>>

\* a timer whose time has passed runs its callback
TimeoutFires ==
  \E i \in DOMAIN timers :
    LET res == timeout(database, timers[i].context) IN
    /\ now >= timers[i].due
    /\ database' = res.table
    /\ timers' = SubSeq(timers, 1, i - 1) \o SubSeq(timers, i + 1, Len(timers))
    /\ emitted' = res.effects
    /\ lastOp' = ManagerCall("timeout", <<timers[i].context>>, res)
    /\ outstanding' = countedEvents(outstanding, res.effects)
    /\ UNCHANGED <<availableFunctions, tasks, client, ready, now, awaitedState, commandState, storeState>>

\* time passes: as long as the host may add a timeout, and as long as a
\* timer waits for its time
Tick ==
  /\ now < MaxTime \/ \E i \in DOMAIN timers : timers[i].due > now
  /\ now' = now + TickMs
  /\ UNCHANGED <<availableFunctions, lastOp, tasks, client, emitted, database,
                 timers, outstanding, ready, awaitedState, commandState,
                 storeState>>

\* the entries an earlier run of the process left in the table
Persisted ==
  { << >>, ("t1" :> ValueDatabase("t1", 5001, "a", 0)) }

InitTimeouts ==
  /\ InitRegistry
  /\ client = newClient(FALSE, FALSE)
  /\ emitted = <<>>
  /\ database \in Persisted
  /\ timers = <<>>
  /\ outstanding = [context \in { database[k] : k \in DOMAIN database } |-> 1]
  /\ ready = FALSE
  /\ now = 0
  /\ awaiteds = << >>
  /\ commands = <<>>
  /\ connected = FALSE
  /\ intervals = <<>>
  /\ actions = <<>>
  /\ registerCommand = <<>>
  /\ registerTimeout = <<>>
  /\ registerCallback = <<>>
  /\ handling = [q \in 1..MaxQueries |-> idleHandling]
  /\ loops = [loop \in Loops |-> noLoop]
  /\ iterations = [t \in 1..(MaxTasks + 1) |-> noIteration]
  /\ store = initialTables
  /\ invocations = [t \in 1..(MaxTasks + 1) |-> noInvocation]

NextTimeouts ==
  \/ AddTimeout
  \/ Ready
  \/ TimeoutFires
  \/ Tick

SpecTimeouts == InitTimeouts /\ [][NextTimeouts]_vars

\* the event loop runs the callback of a timer whose time has passed, and
\* time passes
FairTimeouts ==
  SpecTimeouts /\ WF_vars(TimeoutFires) /\ WF_vars(Tick)

-----------------------------------------------------------------------------
(* Awaited, AwaitedManager and awaitedCommand *)

AwaitedDescription(awaited, code) == [code |-> code, awaited |-> awaited]

\* what a call left of the awaited commands, and what it threw
Awaiting(registered, listed, pending, effects, threw) ==
  [threw |-> threw, effects |-> effects, pending |-> pending,
   registered |-> registered, listed |-> listed]

\* Awaited.register that sets the description whatever is registered
registerAnyway(registered, options) ==
  Awaiting((options.awaited :> options) @@ registered, <<>>, <<>>, <<>>, "none")

\* Awaited.register
register(registered, options) ==
  IF options.awaited \notin DOMAIN registered
  THEN Awaiting((options.awaited :> options) @@ registered, <<>>, <<>>, <<>>, "none")
  ELSE Awaiting(registered, <<>>, <<>>, <<>>, "awaited")

\* AoiClient.awaitedCommand
awaitedCommand(registered, listed, options) ==
  IF options.awaited = "" THEN Awaiting(registered, listed, <<>>, <<>>, "parameter")
  ELSE IF options.code = <<>> THEN Awaiting(registered, listed, <<>>, <<>>, "parameter")
  ELSE LET one == register(registered, options) IN
       IF one.threw # "none" THEN Awaiting(registered, listed, <<>>, <<>>, one.threw)
       ELSE Awaiting(one.registered, Append(listed, options), <<>>, <<>>, "none")

\* the event addAwaited emits
AwaitedEvent(awaited, milliseconds, data) ==
  [awaited |-> awaited, milliseconds |-> milliseconds, data |-> data]

\* the listener Awaited.handler registers on 'awaited': an interval for the
\* description registered under the name of the event
awaitedListener(registered, pending, event) ==
  IF event.awaited \in DOMAIN registered
  THEN Append(pending, event)
  ELSE pending

\* addAwaited that emits before it looks at the time
addAwaitedEmitsFirst(registered, listening, pending, awaited, milliseconds, data) ==
  LET event == AwaitedEvent(awaited, milliseconds, data) IN
  Awaiting(registered, <<>>,
           IF listening THEN awaitedListener(registered, pending, event) ELSE pending,
           << <<"awaited", event>> >>,
           IF milliseconds <= minimumAwaited THEN "timeout" ELSE "none")

\* AwaitedManager.addAwaited
addAwaited(registered, listening, pending, awaited, milliseconds, data) ==
  LET event == AwaitedEvent(awaited, milliseconds, data) IN
  IF milliseconds <= minimumAwaited
  THEN Awaiting(registered, <<>>, pending, <<>>, "timeout")
  ELSE Awaiting(registered, <<>>,
                IF listening THEN awaitedListener(registered, pending, event)
                ELSE pending,
                << <<"awaited", event>> >>, "none")

\* the host calls awaitedCommand
AwaitedCommand ==
  \E awaited \in AwaitedNames \cup {""}, code \in AwaitedCodes \cup {<<>>} :
    LET options == AwaitedDescription(awaited, code)
        res     == awaitedCommand(awaiteds, commands, options)
    IN  /\ awaiteds' = res.registered
        /\ commands' = res.listed
        /\ emitted' = res.effects
        /\ lastOp' = ManagerCall("awaitedCommand", <<options>>, res)
        /\ UNCHANGED <<availableFunctions, tasks, client, database, timers, outstanding,
                       ready, now, connected, intervals, commandState,
                       storeState>>

\* connect registers the listener of 'awaited'
Connect ==
  /\ ~connected
  /\ connected' = TRUE
  /\ UNCHANGED <<availableFunctions, lastOp, tasks, client, emitted, database,
                 timers, outstanding, ready, now, awaiteds, commands, intervals, commandState,
                 storeState>>

\* a callback calls addAwaited
AddAwaited ==
  \E awaited \in AwaitedNames, milliseconds \in AwaitedMilliseconds,
     data \in AwaitedData :
    LET res == addAwaited(awaiteds, connected, intervals, awaited, milliseconds, data)
    IN  /\ Len(intervals) < MaxIntervals
        /\ intervals' = res.pending
        /\ emitted' = res.effects
        /\ lastOp' = ManagerCall("addAwaited",
                                 <<AwaitedEvent(awaited, milliseconds, data)>>, res)
        /\ UNCHANGED <<availableFunctions, tasks, client, database, timers, outstanding,
                       ready, now, awaiteds, commands, connected, commandState,
                       storeState>>

NextAwaited ==
  \/ AwaitedCommand
  \/ Connect
  \/ AddAwaited

SpecAwaited == Init /\ [][NextAwaited]_vars

-----------------------------------------------------------------------------
(* addCommand, addAction, timeoutCommand, addCallback *)

CommandDescription(name, code) == [name |-> name, code |-> code]

ActionDescription(data, answer, code) ==
  [code |-> code, data |-> data, answer |-> answer]

TimeoutDescription(id, code) == [code |-> code, id |-> id]

CallbackDescription(name, type, code, callback) ==
  [name |-> name, code |-> code, callback |-> callback, type |-> type]

\* Command.register, Timeout.register, Callback.register: the description
\* is kept
registerDescription(registered, options) == Append(registered, options)

\* Action.register: this.actions.push(action)
registerAction(registered, action) == Append(registered, action)

\* a command method of the client that registers before it looks at its
\* options
unchecked(registered, listed, options) ==
  Awaiting(Append(registered, options), Append(listed, options), <<>>, <<>>,
           "parameter")

\* AoiClient.addCommand
addCommand(registered, listed, options) ==
  IF options.name = "" THEN Awaiting(registered, listed, <<>>, <<>>, "parameter")
  ELSE IF options.code = <<>> THEN Awaiting(registered, listed, <<>>, <<>>, "parameter")
  ELSE Awaiting(registerDescription(registered, options), Append(listed, options),
                <<>>, <<>>, "none")

\* AoiClient.addAction
addAction(registered, listed, options) ==
  IF options.data = "" THEN Awaiting(registered, listed, <<>>, <<>>, "parameter")
  ELSE IF options.code = <<>> THEN Awaiting(registered, listed, <<>>, <<>>, "parameter")
  ELSE Awaiting(registerAction(registered, options), Append(listed, options),
                <<>>, <<>>, "none")

\* AoiClient.timeoutCommand
timeoutCommand(registered, listed, options) ==
  IF options.id = "" THEN Awaiting(registered, listed, <<>>, <<>>, "parameter")
  ELSE IF options.code = <<>> THEN Awaiting(registered, listed, <<>>, <<>>, "parameter")
  ELSE Awaiting(registerDescription(registered, options), Append(listed, options),
                <<>>, <<>>, "none")

\* AoiClient.addCallback
addCallback(registered, listed, options) ==
  IF options.name = "" THEN Awaiting(registered, listed, <<>>, <<>>, "parameter")
  ELSE IF options.type = "aoitelegram" /\ options.code = <<>>
  THEN Awaiting(registered, listed, <<>>, <<>>, "parameter")
  ELSE IF options.type = "js" /\ options.callback = ""
  THEN Awaiting(registered, listed, <<>>, <<>>, "parameter")
  ELSE Awaiting(registerDescription(registered, options), Append(listed, options),
                <<>>, <<>>, "none")

\* the host calls addCommand
AddCommand ==
  \E name \in CommandNames, code \in CommandCodes :
    LET options == CommandDescription(name, code)
        res     == addCommand(registerCommand, commands, options)
    IN  /\ Len(commands) < MaxCommands
        /\ registerCommand' = res.registered
        /\ commands' = res.listed
        /\ emitted' = res.effects
        /\ lastOp' = ManagerCall("addCommand", <<options>>, res)
        /\ UNCHANGED <<availableFunctions, tasks, client, database, timers, outstanding,
                       ready, now, awaiteds, connected, intervals, actions,
                       registerTimeout, registerCallback,
                       handling, loopState, storeState>>

\* the host calls addAction
AddActionOf(datas, codes) ==
  \E data \in datas, answer \in ActionAnswers, code \in codes :
    LET options == ActionDescription(data, answer, code)
        res     == addAction(actions, commands, options)
    IN  /\ Len(commands) < MaxCommands
        /\ actions' = res.registered
        /\ commands' = res.listed
        /\ emitted' = res.effects
        /\ lastOp' = ManagerCall("addAction", <<options>>, res)
        /\ UNCHANGED <<availableFunctions, tasks, client, database, timers, outstanding,
                       ready, now, awaiteds, connected, intervals,
                       registerCommand, registerTimeout, registerCallback,
                       handling, loopState, storeState>>

AddAction == AddActionOf(ActionDatas, CommandCodes)

\* the host calls timeoutCommand
TimeoutCommand ==
  \E id \in TimeoutNames, code \in CommandCodes :
    LET options == TimeoutDescription(id, code)
        res     == timeoutCommand(registerTimeout, commands, options)
    IN  /\ Len(commands) < MaxCommands
        /\ registerTimeout' = res.registered
        /\ commands' = res.listed
        /\ emitted' = res.effects
        /\ lastOp' = ManagerCall("timeoutCommand", <<options>>, res)
        /\ UNCHANGED <<availableFunctions, tasks, client, database, timers, outstanding,
                       ready, now, awaiteds, connected, intervals, actions,
                       registerCommand, registerCallback,
                       handling, loopState, storeState>>

\* the host calls addCallback
AddCallback ==
  \E name \in CallbackNames, type \in CallbackTypes, code \in CommandCodes,
     callback \in CallbackBodies :
    LET options == CallbackDescription(name, type, code, callback)
        res     == addCallback(registerCallback, commands, options)
    IN  /\ Len(commands) < MaxCommands
        /\ registerCallback' = res.registered
        /\ commands' = res.listed
        /\ emitted' = res.effects
        /\ lastOp' = ManagerCall("addCallback", <<options>>, res)
        /\ UNCHANGED <<availableFunctions, tasks, client, database, timers, outstanding,
                       ready, now, awaiteds, connected, intervals, actions,
                       registerCommand, registerTimeout,
                       handling, loopState, storeState>>

\* the host calls awaitedCommand, as long as commands are followed
AwaitedCommandListed == Len(commands) < MaxCommands /\ AwaitedCommand

NextCommands ==
  \/ AddCommand
  \/ AddAction
  \/ TimeoutCommand
  \/ AwaitedCommandListed
  \/ AddCallback

SpecCommands == Init /\ [][NextCommands]_vars

-----------------------------------------------------------------------------
(* loopCommand *)

\* what the callback that the evaluator has just called did to the loops:
\* () => clearInterval(intervalId) clears the interval of the loop it
\* closes over
afterCallback(state, called) ==
  IF called.func # undefined /\ called.func.callback = "clearInterval"
  THEN [state EXCEPT ![called.func.closure].interval = "cleared"]
  ELSE state

\* what the dispatch was given by the callback: () => currentIndex returns
\* the currentIndex of the loop it closes over
givenByCallback(state, iter, called) ==
  IF called.func = undefined THEN iter
  ELSE IF called.func.callback = "currentIndex"
  THEN [iter EXCEPT !.index = state[called.func.closure].currentIndex]
  ELSE IF called.func.callback = "clearInterval"
  THEN [iter EXCEPT !.cleared = called.func.closure]
  ELSE iter

\* the host calls loopCommand: let currentIndex = 1; setInterval(...)
LoopCommand ==
  \E loop \in Loops, code \in LoopBodies :
    /\ loops[loop].interval = "none"
    /\ loops' = [loops EXCEPT ![loop] =
                   [noLoop EXCEPT !.code = code, !.interval = "set"]]
    /\ UNCHANGED <<availableFunctions, lastOp, tasks, client, emitted, database,
                   timers, outstanding, ready, now, awaitedState, actions, registerCommand,
                   registerTimeout, registerCallback, handling, iterations,
                   storeState>>

\* the interval of a loop fires: ensureFunction and evaluateCommand up to
\* its first await
LoopInterval ==
  \E loop \in Loops :
    LET res   == ensureFunction(availableFunctions, loopFunctions(loop))
        task  == startTask(res.funcs, loops[loop].code)
        ticked == [loops EXCEPT ![loop].ticks = @ + 1]
        iter  == [noIteration EXCEPT !.loop = loop,
                                     !.iteration = ticked[loop].ticks]
    IN  /\ loops[loop].interval = "set"
        /\ loops[loop].ticks < MaxTicks
        /\ \E t \in TaskIds : isFree(t)
        /\ availableFunctions' = res.funcs
        /\ lastOp' = CallBy("loopCommand", "ensureFunction", loopFunctions(loop),
                            availableFunctions, res)
        /\ tasks' = [tasks EXCEPT ![freeTask] = task]
        /\ loops' = afterCallback(ticked, task.called)
        /\ iterations' = [iterations EXCEPT ![freeTask] =
                            givenByCallback(ticked, iter, task.called)]
        /\ UNCHANGED <<client, emitted, database, timers, outstanding, ready, now,
                       awaitedState, actions, registerCommand, registerTimeout,
                       registerCallback, handling, storeState>>

\* the evaluation of an iteration goes on, after an await, until its next
\* await
LoopCompleteTask ==
  \E t \in TaskIds :
    LET task == completeTaskStep(availableFunctions, tasks[t]) IN
    /\ tasks[t].status = "running"
    /\ tasks' = [tasks EXCEPT ![t] = task]
    /\ loops' = afterCallback(loops, task.called)
    /\ iterations' = [iterations EXCEPT ![t] =
                        givenByCallback(loops, iterations[t], task.called)]
    /\ UNCHANGED <<availableFunctions, lastOp, client, emitted, database, timers, outstanding,
                   ready, now, awaitedState, actions, registerCommand,
                   registerTimeout, registerCallback, handling,
                   storeState>>

\* await this.evaluateCommand(...) settles in the callback of the interval:
\* currentIndex++
LoopIterationEnds ==
  \E t \in TaskIds :
    /\ tasks[t].status \in {"returned", "thrown"}
    /\ tasks' = [tasks EXCEPT ![t] = evaluateCommandEnd(tasks[t])]
    /\ loops' = [loops EXCEPT ![iterations[t].loop].currentIndex = @ + 1]
    /\ UNCHANGED <<availableFunctions, lastOp, client, emitted, database, timers, outstanding,
                   ready, now, awaitedState, actions, registerCommand,
                   registerTimeout, registerCallback, handling, iterations,
                   storeState>>

NextLoops ==
  \/ LoopCommand
  \/ LoopInterval
  \/ LoopCompleteTask
  \/ LoopIterationEnds

SpecLoops == InitConcurrent /\ [][NextLoops]_vars

-----------------------------------------------------------------------------
(* Action.handler: the listener of 'callback_query:data' *)

filterToParams(array, search) ==
  SelectSeq(array, LAMBDA action : action.data = search)

\* the body of the for loop up to its first await: answerCallbackQuery when
\* the action asks for it, else evaluateCommand
forAction(query) ==
  IF query.at > Len(query.matching) THEN [query EXCEPT !.phase = "done"]
  ELSE IF query.matching[query.at].answer
  THEN [query EXCEPT !.phase = "answering"]
  ELSE [query EXCEPT !.phase = "evaluating",
                     !.evaluations = Append(@, <<"start", query.at>>)]

\* the listener on a callback query
actionListener(registered, queryData) ==
  LET query == [idleHandling EXCEPT !.queryData = queryData,
                              !.registeredActions = registered]
  IN  IF registered = <<>> THEN [query EXCEPT !.phase = "done"]
      ELSE LET matching == filterToParams(registered, queryData) IN
           IF matching = <<>> THEN [query EXCEPT !.phase = "done"]
           ELSE forAction([query EXCEPT !.matching = matching, !.at = 1])

\* a listener whose await of answerCallbackQuery has no catch: a rejection
\* ends the listener
answerSettledUncaught(query, answered) ==
  IF answered
  THEN [query EXCEPT !.phase = "evaluating",
                     !.evaluations = Append(@, <<"start", query.at>>)]
  ELSE [query EXCEPT !.phase = "done"]

\* await query.answerCallbackQuery().catch(() => console.log) settles,
\* answered or not, and evaluateCommand is called
answerSettled(query, answered) ==
  [query EXCEPT !.phase = "evaluating",
                !.evaluations = Append(@, <<"start", query.at>>)]

\* await this.telegram.evaluateCommand(...) settles: the next action
evaluated(query) ==
  forAction([query EXCEPT !.at = @ + 1, !.evaluations = Append(@, <<"end", query.at>>)])

\* the evaluation the listener starts when it reaches evaluateCommand
evaluateAction(dispatches, q, query) ==
  IF query.phase = "evaluating"
  THEN [dispatches EXCEPT ![q] =
          startTask(availableFunctions, query.matching[query.at].code)]
  ELSE dispatches

\* the host registers an action
AddActionListed == AddActionOf(QueryDatas, ActionCodes)

\* Telegram delivers a callback query
CallbackQuery ==
  \E q \in DOMAIN handling, queryData \in QueryDatas :
    LET query == actionListener(actions, queryData) IN
    /\ connected
    /\ handling[q].phase = "idle"
    /\ handling' = [handling EXCEPT ![q] = query]
    /\ tasks' = evaluateAction(tasks, q, query)
    /\ UNCHANGED <<availableFunctions, lastOp, client, emitted, database, timers, outstanding,
                   ready, now, awaitedState, actions, registerCommand,
                   registerTimeout, registerCallback, loopState,
                   storeState>>

\* answerCallbackQuery settles
AnswerCallbackQuery ==
  \E q \in DOMAIN handling, answered \in BOOLEAN :
    LET query == answerSettled(handling[q], answered) IN
    /\ handling[q].phase = "answering"
    /\ handling' = [handling EXCEPT ![q] = query]
    /\ tasks' = evaluateAction(tasks, q, query)
    /\ UNCHANGED <<availableFunctions, lastOp, client, emitted, database, timers, outstanding,
                   ready, now, awaitedState, actions, registerCommand,
                   registerTimeout, registerCallback, loopState,
                   storeState>>

\* the listener goes on after the evaluation of an action
ActionEvaluated ==
  \E q \in DOMAIN handling :
    LET query == evaluated(handling[q]) IN
    /\ handling[q].phase = "evaluating"
    /\ tasks[q].status = "settled"
    /\ handling' = [handling EXCEPT ![q] = query]
    /\ tasks' = evaluateAction(tasks, q, query)
    /\ UNCHANGED <<availableFunctions, lastOp, client, emitted, database, timers, outstanding,
                   ready, now, awaitedState, actions, registerCommand,
                   registerTimeout, registerCallback, loopState,
                   storeState>>

\* a client with the functions of the library and no action
InitActions ==
  /\ availableFunctions = loadFunctionsLib(ConcurrentLibrary, << >>, <<>>)
  /\ lastOp = Call("constructor", <<>>, << >>, Returned(<< >>, "this"))
  /\ tasks = [t \in 1..MaxQueries |-> idleTask]
  /\ InitClient

NextActions ==
  \/ AddActionListed
  \/ Connect
  \/ CallbackQuery
  \/ AnswerCallbackQuery
  \/ ActionEvaluated
  \/ CompleteTask
  \/ EvaluateCommandEnd

SpecActions == InitActions /\ [][NextActions]_vars

-----------------------------------------------------------------------------
(* The database functions: $setVar *)

\* the arguments of a $setVar call: the variable, the value and the table,
\* "" when the call names no table
SetVarArgs == { <<name, "b", table>> : name \in {"v1", "v2"},
                                      table \in {"", "main", "other"} }

\* const defaultTable = args[2] || database.table[0]
defaultTable(given) == IF given # "" THEN given ELSE "main"

\* what a callback did from the await it stood at to its next await or to
\* its end: continuing is "ended" when it returned or threw
Continued(res, effects, signalled, tables, continuing) ==
  [funcs |-> res.funcs, value |-> res.value, threw |-> res.threw,
   effects |-> effects, tables |-> tables, signalled |-> signalled,
   continuing |-> continuing]

\* the callback signals an error: the operation of MessageError throws
Signalled(tables, funcs, telegram, invocation, op) ==
  LET res == errorOp(funcs, telegram, invocation.event, op) IN
  Continued(res, res.effects, op, tables, "ended")

\* the callback of $setVar, from one await to the next
setVar(tables, funcs, telegram, invocation) ==
  LET variable == invocation.args[1]
      inTable  == defaultTable(invocation.args[3])
  IN  CASE invocation.step = "has" ->
             IF ~databaseHas(tables, inTable, variable)
             THEN Signalled(tables, funcs, telegram, invocation, "errorVar")
             ELSE Continued(Returned(funcs, "pending"), <<>>, "none", tables,
                            "hasTable")
        [] invocation.step = "hasTable" ->
             IF ~databaseHasTable(tables, inTable)
             THEN Signalled(tables, funcs, telegram, invocation, "errorTable")
             ELSE Continued(Returned(funcs, "pending"), <<>>, "none", tables,
                            "set")
        [] invocation.step = "set" ->
             Continued(Returned(funcs, "undefined"), <<>>, "none",
                       databaseSet(tables, inTable, variable, invocation.args[2]),
                       "ended")

\* the evaluator invokes the callback of the one call of the source
invoked(funcs, name) ==
  [newTaskCompleter(funcs, <<name>>) EXCEPT
     !.called = [func |-> get(funcs, toLowerCase(name)),
                 name |-> toLowerCase(name)]]

\* the evaluation when the callback of its one call has returned or thrown
callbackEnded(task, res, text) ==
  IF res.threw # "none"
  THEN [task EXCEPT !.status = "thrown", !.error = res.threw]
  ELSE [task EXCEPT !.output = Append(@, text), !.pos = @ + 1,
                    !.status = "returned"]

\* an event of the host: evaluateCommand starts on the source $setVar[...];
\* the callback runs as far as await ctx.getEvaluateArgs()
EvaluateCommandSetVar ==
  \E given \in SetVarArgs, event \in Events :
    /\ \E t \in TaskIds : isFree(t)
    /\ has(availableFunctions, <<"$","s","e","t","v","a","r">>)
    /\ tasks' = [tasks EXCEPT ![freeTask] =
                   invoked(availableFunctions, <<"$","s","e","t","V","a","r">>)]
    /\ invocations' = [invocations EXCEPT ![freeTask] =
                         [noInvocation EXCEPT !.event = event,
                            !.callee = "$setVar", !.step = "has",
                            !.args = given]]
    /\ UNCHANGED <<availableFunctions, lastOp, client, emitted, database,
                   timers, outstanding, ready, now, awaitedState, commandState,
                   store>>

\* the promise the callback of $setVar awaits is settled: the callback runs
\* on to its next await, or it ends
SetVarContinues ==
  \E t \in TaskIds :
    /\ invocations[t].callee = "$setVar"
    /\ LET res == setVar(store, availableFunctions, client, invocations[t]) IN
       /\ availableFunctions' = res.funcs
       /\ emitted' = IF res.signalled # "none" THEN res.effects ELSE emitted
       /\ lastOp' = IF res.signalled # "none"
                    THEN CallBy("callback", res.signalled,
                                <<invocations[t].event>>, availableFunctions, res)
                    ELSE lastOp
       /\ store' = res.tables
       /\ tasks' = IF res.continuing = "ended"
                   THEN [tasks EXCEPT ![t] = callbackEnded(tasks[t], res, "")]
                   ELSE tasks
       /\ invocations' = [invocations EXCEPT ![t] =
                            IF res.continuing = "ended" THEN noInvocation
                            ELSE [@ EXCEPT !.step = res.continuing]]
    /\ UNCHANGED <<client, database, timers, outstanding, ready, now,
                   awaitedState, commandState>>

NextSetVar ==
  \/ EvaluateCommandSetVar
  \/ SetVarContinues
  \/ EvaluateCommandEnd

SpecSetVar == InitErrors /\ [][NextSetVar]_vars

-----------------------------------------------------------------------------
(* The database functions: $globalCooldown *)

MaxWindows == 1      \* the cooldown windows the clock runs through

CooldownLibrary ==
  << DataFunction(<<"$","g","l","o","b","a","l","C","o","o","l","d","o","w","n">>,
                  <<>>, "globalCooldown") >>

\* the arguments of a $globalCooldown call: the time and the text of the reply
CooldownArgs == { <<"10s", "wait">> }

\* ms(args[0]): the milliseconds of the time a call names
ms(duration) == IF duration = "10s" THEN 10000 ELSE 0

\* `${userId}_${commandName}_${ms(args[0])}`, of the one user and the one
\* command the dispatches are of
cooldownKey(duration) == IF ms(duration) = 10000 THEN "u1_ping_10000" ELSE "u1_ping_0"

\* the callback of $globalCooldown, from one await to the next: the read of
\* the stored time, then the test against Date.now() with the reply or the
\* write of Date.now(), then the end
globalCooldown(tables, funcs, time, invocation) ==
  LET duration == invocation.args[1]
      inTable  == defaultTable("")
      key      == cooldownKey(duration)
  IN  CASE invocation.step = "get" ->
             Continued(Returned(funcs,
                                IF databaseHas(tables, inTable, key)
                                THEN databaseGet(tables, inTable, key)
                                ELSE 0),
                       <<>>, "none", tables, "got")
        [] invocation.step = "got" ->
             IF invocation.userCooldown + ms(duration) - time > 0
             THEN Continued(Returned(funcs, "true"),
                            << <<"send", invocation.args[2]>> >>, "none",
                            tables, "ended")
             ELSE Continued(Returned(funcs, "pending"), <<>>, "none",
                            databaseSet(tables, inTable, key, time), "set")
        [] invocation.step = "set" ->
             Continued(Returned(funcs, "undefined"), <<>>, "none", tables,
                       "ended")

\* a client whose clock has run for the time of one cooldown; the registry
\* holds $globalCooldown
InitCooldown ==
  /\ availableFunctions = loadFunctionsLib(CooldownLibrary, << >>, <<>>)
  /\ lastOp = Call("constructor", <<>>, << >>, Returned(<< >>, "this"))
  /\ tasks = [t \in 1..(MaxTasks + 1) |-> idleTask]
  /\ client = newClient(FALSE, FALSE)
  /\ emitted = <<>>
  /\ database = << >>
  /\ timers = <<>>
  /\ outstanding = << >>
  /\ ready = FALSE
  /\ now = ms("10s")
  /\ awaiteds = << >>
  /\ commands = <<>>
  /\ connected = FALSE
  /\ intervals = <<>>
  /\ actions = <<>>
  /\ registerCommand = <<>>
  /\ registerTimeout = <<>>
  /\ registerCallback = <<>>
  /\ handling = [q \in 1..MaxQueries |-> idleHandling]
  /\ loops = [loop \in Loops |-> noLoop]
  /\ iterations = [t \in 1..(MaxTasks + 1) |-> noIteration]
  /\ store = initialTables
  /\ invocations = [t \in 1..(MaxTasks + 1) |-> noInvocation]

\* an update of the user: evaluateCommand starts on the source
\* $globalCooldown[10s;wait] of the command; the callback runs as far as
\* await ctx.getEvaluateArgs()
EvaluateCommandGlobalCooldown ==
  \E given \in CooldownArgs :
    /\ \E t \in TaskIds : isFree(t)
    /\ tasks' = [tasks EXCEPT ![freeTask] =
                   invoked(availableFunctions,
                           <<"$","g","l","o","b","a","l","C","o","o","l","d","o","w","n">>)]
    /\ invocations' = [invocations EXCEPT ![freeTask] =
                         [noInvocation EXCEPT !.event = [send |-> TRUE],
                            !.callee = "$globalCooldown", !.step = "get",
                            !.args = given]]
    /\ UNCHANGED <<availableFunctions, lastOp, client, emitted, database,
                   timers, outstanding, ready, now, awaitedState, commandState,
                   store>>

\* the promise the callback of $globalCooldown awaits is settled: the
\* callback runs on to its next await, or it ends
GlobalCooldownContinues ==
  \E t \in TaskIds :
    /\ invocations[t].callee = "$globalCooldown"
    /\ LET res == globalCooldown(store, availableFunctions, now, invocations[t]) IN
       /\ emitted' = res.effects
       /\ store' = res.tables
       /\ tasks' = IF res.continuing = "ended"
                   THEN [tasks EXCEPT ![t] =
                           callbackEnded(tasks[t], res,
                                         IF res.value = "true" THEN "true" ELSE "")]
                   ELSE tasks
       /\ invocations' = [invocations EXCEPT ![t] =
                            IF res.continuing = "ended" THEN noInvocation
                            ELSE IF res.continuing = "got"
                            THEN [@ EXCEPT !.step = "got", !.userCooldown = res.value]
                            ELSE [@ EXCEPT !.step = res.continuing]]
    /\ UNCHANGED <<availableFunctions, lastOp, client, database, timers,
                   outstanding, ready, now, awaitedState, commandState>>

\* time passes: half the time of the cooldown
TimePasses ==
  /\ now < ms("10s") + MaxWindows * ms("10s")
  /\ now' = now + ms("10s") \div 2
  /\ UNCHANGED <<availableFunctions, lastOp, tasks, client, emitted, database,
                 timers, outstanding, ready, awaitedState, commandState,
                 storeState>>

NextCooldown ==
  \/ EvaluateCommandGlobalCooldown
  \/ GlobalCooldownContinues
  \/ TimePasses
  \/ EvaluateCommandEnd

SpecCooldown == InitCooldown /\ [][NextCooldown]_vars

-----------------------------------------------------------------------------
(* Properties of the registry API *)

\* the lower-cased name of the i-th element of the last call's argument
argName(i) == toLowerCase(lastOp.arg[i].name)

\* the i-th descriptor of an addFunction call meets its own name: the name is
\* registered, or an earlier descriptor of the same array took it
meetsItsName(i) ==
  /\ argName(i) # <<>>
  /\ \/ argName(i) \in DOMAIN lastOp.before
     \/ \E j \in 1..(i - 1) : argName(j) = argName(i)

\* C1: addFunction with a descriptor whose lower-cased name is already
\* registered throws an AoijsError (the "already exists" one when the
\* descriptor is the only one given), and every descriptor that was
\* registered before the call is still registered, unchanged.
C1_DuplicateRejected ==
  lastOp.op = "addFunction" =>
    /\ \A i \in DOMAIN lastOp.arg :
         meetsItsName(i) =>
           /\ lastOp.threw \in AoijsErrors
           /\ Len(lastOp.arg) = 1 => lastOp.threw = "alreadyExists"
    /\ \A n \in DOMAIN lastOp.before :
         /\ n \in DOMAIN availableFunctions
         /\ availableFunctions[n] = lastOp.before[n]

\* C1, its case: $F is given while $f is registered under the key $f
C1_Witness ==
  /\ lastOp.op = "addFunction"
  /\ Len(lastOp.arg) = 1
  /\ lastOp.arg[1].name = <<"$","F">>
  /\ <<"$","f">> \in DOMAIN lastOp.before
  /\ lastOp.before[<<"$","f">>].name = <<"$","f">>
  /\ lastOp.threw = "alreadyExists"

\* C2: hasFunction and getFunction look a name up whatever its letter case:
\* when the lower-cased name is registered, hasFunction returns true and
\* getFunction returns the descriptor registered under it.
C2_LookupIgnoresCase ==
  /\ lastOp.op = "hasFunction" /\ toLowerCase(lastOp.arg[1]) \in DOMAIN lastOp.before
       => lastOp.value = "true"
  /\ lastOp.op = "getFunction" /\ toLowerCase(lastOp.arg[1]) \in DOMAIN lastOp.before
       => lastOp.func = lastOp.before[toLowerCase(lastOp.arg[1])]

C4_EditAllOrNothing ==
  lastOp.op = "editFunction" /\ lastOp.threw # "none"
    => availableFunctions = lastOp.before

\* C6: removeFunction throws an AoijsError exactly when the array is empty or
\* one of its names, lower-cased, is not registered at its turn (it never was,
\* or the same call already removed it); every name it went through is gone
\* afterwards, so that has and get on the lower-cased name find nothing and
\* removing it once more throws.
C6_RemoveUnknownRejected ==
  lastOp.op = "removeFunction" =>
    LET names == [i \in DOMAIN lastOp.arg |-> toLowerCase(lastOp.arg[i])]
        missing(i) == \/ names[i] \notin DOMAIN lastOp.before
                      \/ \E j \in 1..(i - 1) : names[j] = names[i]
    IN  /\ lastOp.threw \in AoijsErrors
             <=> (names = <<>> \/ \E i \in DOMAIN names : missing(i))
        /\ lastOp.threw = "none" =>
             \A i \in DOMAIN names :
               /\ ~hasFunction(availableFunctions, names[i])
               /\ getFunction(availableFunctions, names[i]) = undefined
               /\ removeFunction(availableFunctions, <<lastOp.arg[i]>>).threw
                    = "doesNotExist"
        /\ \A n \in DOMAIN lastOp.before :
             (\A i \in DOMAIN names : names[i] # n)
               => get(availableFunctions, n) = lastOp.before[n]

\* C6, its case: the library's $setVar is removed for the second time
C6_Witness ==
  /\ lastOp.op = "removeFunction"
  /\ lastOp.arg = << <<"$","s","e","t","V","a","r">> >>
  /\ lastOp.threw = "doesNotExist"

\* the numbers a version string holds, "0.10.0" being <<0, 10, 0>>
RECURSIVE versionNumbers(_, _)
versionNumbers(s, acc) ==
  IF s = <<>> THEN <<acc>>
  ELSE IF Head(s) = "." THEN <<acc>> \o versionNumbers(Tail(s), 0)
  ELSE versionNumbers(Tail(s), 10 * acc + (charCode(Head(s)) - 48))

\* a is a later version than b, number by number
RECURSIVE laterNumbers(_, _)
laterNumbers(a, b) ==
  IF a = <<>> \/ b = <<>> THEN a # <<>>
  ELSE IF Head(a) # Head(b) THEN Head(a) > Head(b)
  ELSE laterNumbers(Tail(a), Tail(b))

declaresLaterVersion(func) ==
  /\ func.version # <<>>
  /\ laterNumbers(versionNumbers(func.version, 0), versionNumbers(version, 0))

\* C7: addFunction with a descriptor that declares a version later than the
\* library's throws an AoijsError and does not register the descriptor.
C7_LaterVersionRejected ==
  lastOp.op = "addFunction" /\ Len(lastOp.arg) = 1
    /\ declaresLaterVersion(lastOp.arg[1])
    => /\ lastOp.threw \in AoijsErrors
       /\ availableFunctions = lastOp.before

-----------------------------------------------------------------------------
(* Properties of the dispatch *)

\* the descriptor the last call of the registry API gave, last, for a name
lastGiven(n) ==
  lastOp.arg[CHOOSE i \in DOMAIN lastOp.arg :
               /\ argName(i) = n
               /\ \A j \in DOMAIN lastOp.arg : argName(j) = n => j <= i]

\* after a call of the registry API that returned, the lookups by the
\* registered (lower-cased) name find what the call left
mutationApplied ==
  lastOp.threw = "none" =>
    /\ lastOp.op \in {"addFunction", "ensureFunction", "editFunction"} =>
         \A i \in DOMAIN lastOp.arg :
           /\ hasFunction(availableFunctions, argName(i))
           /\ getFunction(availableFunctions, argName(i)) = lastGiven(argName(i))
    /\ lastOp.op = "removeFunction" =>
         \A i \in DOMAIN lastOp.arg :
           /\ ~hasFunction(availableFunctions, toLowerCase(lastOp.arg[i]))
           /\ getFunction(availableFunctions, toLowerCase(lastOp.arg[i]))
                = undefined

\* a dispatch that starts in this step is given the registry of this step,
\* and resolves its first call to the descriptor registered in this step
startsOnRegistry(t) ==
  isFree(t) /\ ~isFree(t)' =>
    /\ tasks'[t].names = DOMAIN availableFunctions'
    /\ \A n \in calledNames(tasks'[t].code) \cap DOMAIN availableFunctions' :
         tasks'[t].found[n] = availableFunctions'[n]
    /\ tasks'[t].called.func = get(availableFunctions', tasks'[t].called.name)

\* a dispatch that makes a call in this step resolves a name that it knows
\* and that is registered to the descriptor registered in this step
callsOnRegistry(t) ==
  tasks[t].status = "running" /\ tasks'[t] # tasks[t] =>
    LET name == tasks'[t].called.name IN
    name \in tasks[t].names /\ has(availableFunctions, name) =>
      tasks'[t].called.func = availableFunctions[name]

\* C5: a call of addFunction, ensureFunction, editFunction or removeFunction
\* that returned is seen by the very next lookup of the registered name and
\* by every dispatch that starts or makes a call afterwards: the registry
\* they read is the one the call left, so that after an editFunction a
\* dispatch is given the new descriptor.
C5_MutationSeenAtOnce ==
  /\ []mutationApplied
  /\ [][\A t \in TaskIds : startsOnRegistry(t) /\ callsOnRegistry(t)]_vars

\* C5, its case: $f, registered with one callback, was edited to another,
\* and a dispatch that calls $f was given, and called, the new descriptor
C5_Witness ==
  /\ lastOp.op = "editFunction" /\ lastOp.threw = "none"
  /\ <<"$","f">> \in DOMAIN lastOp.before
  /\ lastOp.before[<<"$","f">>].callback = "returnsA"
  /\ lastOp.arg[1].callback = "returnsB"
  /\ \E t \in TaskIds :
       /\ tasks[t].status = "running"
       /\ <<"$","f">> \in DOMAIN tasks[t].found
       /\ tasks[t].found[<<"$","f">>] = lastOp.arg[1]
       /\ tasks[t].called = [func |-> lastOp.arg[1], name |-> <<"$","f">>]
       /\ tasks[t].output = <<"B">>

\* C9: a dispatch is evaluated against the registry as it was when
\* evaluateCommand started: every call it has made of a name it knew from the
\* start resolved to the descriptor registered under the name at the start.
C9_OneSnapshot ==
  \A t \in TaskIds :
    tasks[t].status \in {"running", "returned", "thrown"}
      /\ tasks[t].called # noCall
      /\ tasks[t].called.name \in tasks[t].names
    => tasks[t].called.func = tasks[t].found[tasks[t].called.name]

\* C10: an evaluation that AoiStopping aborted leaves the promise of
\* evaluateCommand resolved, never rejected, with undefined, and not with
\* the output the evaluation had gathered.
C10_AbortResolvesUndefined ==
  \A t \in TaskIds :
    tasks[t].status = "settled" /\ tasks[t].error = "AoiStopping" =>
      /\ tasks[t].settled = "resolved"
      /\ tasks[t].value = undefinedValue
      /\ tasks[t].value # Value(tasks[t].output)

\* C11: a fault thrown inside a callback, an error that is not AoiStopping,
\* reaches the caller of evaluateCommand as a fatal error of the dispatch:
\* the promise is rejected.
C11_FaultRejects ==
  \A t \in TaskIds :
    tasks[t].status = "settled" /\ tasks[t].error = "Error" =>
      tasks[t].settled = "rejected"

\* evaluateCommand, alone, from its start to the settling of its promise
evaluateCommandAlone(funcs, code) ==
  evaluateCommandEnd(completeTask(funcs, startTask(funcs, code)))

\* C12: concurrent dispatches are isolated: a step of one dispatch, its Stop
\* Signal and its fault included, leaves every other dispatch as it was, and
\* the promise of a dispatch settles as it does when the dispatch runs alone.
C12_DispatchesIsolated ==
  [][\A t \in TaskIds :
       tasks'[t] # tasks[t] =>
         /\ \A u \in TaskIds \ {t} : tasks'[u] = tasks[u]
         /\ tasks'[t].status = "settled" =>
              tasks'[t] = evaluateCommandAlone(availableFunctions, tasks[t].code)]_vars

\* the last call was an error operation of MessageError, on this event
signalled     == lastOp.op \in ErrorOps
signalledOn   == lastOp.arg[1]
eventChannel  == ~client.sendMessageError /\ client.functionError
timesEmitted(name) ==
  Cardinality({ i \in DOMAIN emitted : emitted[i][1] = name })

\* C13: every error operation ends by throwing AoiStopping, or ConsoleError
\* when the event has no send operation; it never returns.
C13_AlwaysStops ==
  signalled =>
    \/ lastOp.threw = "AoiStopping"
    \/ lastOp.threw = "ConsoleError" /\ ~signalledOn.send

\* C14: a signalled error uses exactly one channel, the 'functionError'
\* event or the text sent once, and the event exactly when sendMessageError
\* is falsy and functionError is truthy.
C14_OneChannel ==
  signalled =>
    /\ timesEmitted("functionError") + timesEmitted("send") = 1
    /\ timesEmitted("functionError") = 1 <=> eventChannel

\* C15: with sendMessageError set to true no signalled error sends text
\* through the event's send operation.
C15_DisabledSendsNoText ==
  signalled /\ client.sendMessageError => timesEmitted("send") = 0

\* C16: in the text configuration an error operation on an event that has a
\* send operation sends its text once and then raises AoiStopping, and
\* whenever it raised AoiStopping the one send was issued before.
C16_SentBeforeStopping ==
  signalled /\ ~eventChannel =>
    /\ signalledOn.send => lastOp.threw = "AoiStopping"
    /\ lastOp.threw = "AoiStopping" =>
         emitted = << <<"send", lastOp.op>> >>

\* an error operation raised AoiStopping in the text configuration
C16_Witness ==
  /\ signalled /\ ~eventChannel
  /\ lastOp.threw = "AoiStopping"
  /\ emitted = << <<"send", lastOp.op>> >>

\* C17: addTimeout with milliseconds <= 5000 throws AoijsError to its
\* caller, schedules no timer and writes no entry to the table 'timeout'.
C17_ShortTimeoutRejected ==
  [][lastOp'.op = "addTimeout" /\ lastOp'.arg[1].milliseconds <= minimumTimeout =>
       /\ lastOp'.threw = "timeout"
       /\ timers' = timers
       /\ database' = database]_vars

\* addTimeout was refused and the table holds nothing under the id
C17_Witness ==
  /\ lastOp.op = "addTimeout"
  /\ lastOp.arg[1].milliseconds <= minimumTimeout
  /\ lastOp.threw = "timeout"
  /\ lastOp.arg[1].id \notin DOMAIN database

\* the entries addTimeout can accept
AcceptedEntries ==
  { ValueDatabase(id, milliseconds, data, k * TickMs) :
      id \in TimeoutIds,
      milliseconds \in { m \in Milliseconds : m > minimumTimeout },
      data \in TimeoutData,
      k \in 0..(MaxTime \div TickMs) }

\* addTimeout has just accepted the entry
accepted(context) ==
  lastOp.op = "addTimeout" /\ lastOp.arg = <<context>> /\ lastOp.threw = "none"

\* 'timeout' has just been emitted with the entry, and the table holds
\* nothing under its id
fired(context) ==
  /\ lastOp.op \in {"timeout", "ready"}
  /\ \E i \in DOMAIN emitted : emitted[i] = <<"timeout", context>>
  /\ context.id \notin DOMAIN database

\* the entries whose time has passed when 'ready' comes
expired(table, date) ==
  { k \in DOMAIN table : table[k].date + table[k].milliseconds - date <= 0 }

\* C18: an accepted timeout is stored under its id and, the timers firing
\* fairly, leads to a 'timeout' event with its entry, after which the table
\* holds nothing under its id; an entry whose time has passed when 'ready'
\* comes is emitted and deleted in the 'ready' step.
C18_AcceptedTimeoutFires ==
  /\ [](\A context \in AcceptedEntries :
          accepted(context) =>
            context.id \in DOMAIN database /\ database[context.id] = context)
  /\ [][lastOp'.op = "ready" /\ ~ready =>
          \A k \in expired(database, now) :
            /\ k \notin DOMAIN database'
            /\ \E i \in DOMAIN emitted' : emitted'[i] = <<"timeout", database[k]>>]_vars
  /\ \A context \in AcceptedEntries : accepted(context) ~> fired(context)

\* an accepted timeout has fired and left the table
C18_Witness ==
  \E context \in AcceptedEntries :
    /\ fired(context)
    /\ lastOp.op = "timeout"
    /\ ready

\* C19: addAwaited with milliseconds <= 50 throws AoijsError and emits no
\* 'awaited' event; with more it emits one 'awaited' event with the name,
\* the data and the milliseconds.
C19_AwaitedEmittedOnce ==
  lastOp.op = "addAwaited" =>
    IF lastOp.arg[1].milliseconds <= minimumAwaited
    THEN lastOp.threw = "timeout" /\ emitted = <<>>
    ELSE lastOp.threw = "none" /\ emitted = << <<"awaited", lastOp.arg[1]>> >>

\* addAwaited has emitted its event to a connected client that holds a
\* description under the name
C19_Witness ==
  /\ lastOp.op = "addAwaited"
  /\ lastOp.arg[1].milliseconds > minimumAwaited
  /\ emitted = << <<"awaited", lastOp.arg[1]>> >>
  /\ connected
  /\ lastOp.arg[1].awaited \in DOMAIN awaiteds

\* C20: Awaited.register keeps the names unique: a description that
\* awaitedCommand hands it under a registered name is refused with AoijsError
\* and the earlier one stays, so every name keeps the first description
\* registered for it.
C20_FirstDescriptionKept ==
  /\ [][\A name \in DOMAIN awaiteds :
          name \in DOMAIN awaiteds' /\ awaiteds'[name] = awaiteds[name]]_vars
  /\ [][/\ lastOp' # lastOp
        /\ lastOp'.op = "awaitedCommand"
        /\ lastOp'.arg[1].code # <<>>
        /\ lastOp'.arg[1].awaited \in DOMAIN awaiteds
        => lastOp'.threw = "awaited" /\ awaiteds' = awaiteds /\ commands' = commands]_vars
  /\ [](\A name \in DOMAIN awaiteds : awaiteds[name].awaited = name)

\* a second description was refused under a registered name
C20_Witness ==
  /\ lastOp.op = "awaitedCommand"
  /\ lastOp.threw = "awaited"
  /\ lastOp.arg[1].awaited \in DOMAIN awaiteds
  /\ awaiteds[lastOp.arg[1].awaited] # lastOp.arg[1]

\* C24: the registry a client is constructed with holds no function of the
\* library under a name that disableFunctions lists, in whatever letter case
\* the name is listed.
C24_DisabledNotLoaded ==
  lastOp.op = "constructor" =>
    \A i \in DOMAIN lastOp.arg[1] :
      ~has(availableFunctions, toLowerCase(lastOp.arg[1][i]))

\* C30: an accepted addTimeout call causes at most one 'timeout' event for
\* its entry, however addTimeout calls, the firing of timers and 'ready' are
\* ordered: no entry has had more 'timeout' events than accepted calls.
C30_AtMostOneTimeout ==
  \A context \in DOMAIN outstanding : outstanding[context] >= 0

\* the dispatches that evaluate the code of functionErrorCommand
handlingError(t) == tasks[t].code = FunctionErrorCode

\* the descriptors createMessageError registers
HandleErrors == { handleError(op) : op \in ErrorOps }

\* C28: as long as the code of functionErrorCommand is being evaluated for
\* an error, $handleError is registered, with the details of that error, and
\* the calls the code makes of it are given them; when no such evaluation
\* is under way the registry does not hold the $handleError of an error.
C28_HandleErrorWhileHandling ==
  /\ \A t \in TaskIds :
       handlingError(t) /\ tasks[t].status = "running" =>
         /\ has(availableFunctions, handleError("errorArgs").name)
         /\ get(availableFunctions, toLowerCase(handleError("errorArgs").name))
              \in HandleErrors
  /\ \A t \in TaskIds :
       handlingError(t) => tasks[t].called.func \in HandleErrors
  /\ (\A t \in TaskIds : ~(handlingError(t) /\ tasks[t].status = "running")) =>
       \A n \in DOMAIN availableFunctions : availableFunctions[n] \notin HandleErrors

\* C29: the functionError flag of the client is false as long as the code
\* of functionErrorCommand is being evaluated, so that an error the code
\* signals is not routed to a new 'functionError' event, and it is true
\* again when the evaluation has ended.
C29_FlagDownWhileHandling ==
  /\ \A t \in TaskIds :
       handlingError(t) /\ tasks[t].status = "running" => ~client.functionError
  /\ (client.functionErrorCommand /\ emitted # <<>> /\ emitted[1][1] = "functionError"
        /\ \A t \in TaskIds : ~(handlingError(t) /\ tasks[t].status = "running"))
       => client.functionError

\* C26: the $break that a dispatch of an iteration of a loop calls clears
\* the interval of that loop and of no other, however the iterations of the
\* loops interleave, and a loop whose interval was cleared starts no further
\* iteration.
C26_BreakClearsOwnLoop ==
  [][/\ \A t \in TaskIds :
          tasks'[t] # tasks[t] /\ tasks'[t].called.name = <<"$","b","r","e","a","k">> =>
            /\ iterations'[t].cleared = iterations'[t].loop
            /\ \A loop \in Loops \ {iterations'[t].loop} :
                 loops'[loop].interval = loops[loop].interval
     /\ \A loop \in Loops :
          loops[loop].interval = "cleared" => loops'[loop].ticks = loops[loop].ticks]_vars

\* C27: $index, evaluated in the k-th iteration of a loop, returns k, also
\* when an iteration lasts longer than the interval and when other loops
\* run.
C27_IndexIsIteration ==
  \A t \in TaskIds :
    iterations[t].index # 0 => iterations[t].index = iterations[t].iteration

\* the evaluations a listener that runs every action of a list, one after
\* the other, has started and seen settle
RECURSIVE ranInOrder(_)
ranInOrder(n) ==
  IF n = 0 THEN <<>> ELSE ranInOrder(n - 1) \o <<<<"start", n>>, <<"end", n>>>>

startedCalls(log) ==
  SelectSeq(log, LAMBDA e : e[1] = "start")

\* call q of the text has call p as one of its arguments, or as an argument
\* of one of them
encloses(depth, q, p) ==
  q < p /\ \A m \in (q + 1)..p : depth[m] > depth[q]

raisedStopSignal(task) ==
  /\ task.log # <<>>
  /\ task.log[Len(task.log)][1] = "throw"
  /\ callbackOutcome(get(availableFunctions,
                         toLowerCase(task.code[task.log[Len(task.log)][2]]))).text
       = "AoiStopping"

\* C23: once a callback has raised the Stop Signal, the dispatch invokes no
\* further call, neither the next segment nor the rest of an enclosing
\* call, and its promise settles with undefined, not with the output that
\* was gathered.
C23_StopSignalEndsDispatch ==
  [][\A t \in TaskIds :
       raisedStopSignal(tasks[t]) =>
         \/ tasks'[t] = tasks[t]
         \/ /\ tasks'[t].status = "settled"
            /\ tasks'[t].log = <<>>
            /\ tasks'[t].value = undefinedValue
            /\ tasks'[t].value # Value(tasks[t].output)]_vars

\* the Stop Signal was raised by an argument, with a segment in the output,
\* the enclosing call running and a segment left in the source
C23_Witness ==
  \E t \in TaskIds :
    /\ tasks[t].status = "thrown"
    /\ tasks[t].error = "AoiStopping"
    /\ tasks[t].output = <<"A">>
    /\ Len(tasks[t].running) = 2
    /\ tasks[t].pos <= Len(tasks[t].code)

\* the handler registries and the commands of the client
registries ==
  <<registerCommand, actions, registerTimeout, awaiteds, registerCallback, commands>>

\* the last call was a command method that missed the option that names the
\* command, its code, or what the type of a callback asks for
CommandMethods ==
  {"addCommand", "addAction", "timeoutCommand", "awaitedCommand", "addCallback"}

missesOption(op, options) ==
  CASE op = "addCommand"     -> options.name = "" \/ options.code = <<>>
    [] op = "addAction"      -> options.data = "" \/ options.code = <<>>
    [] op = "timeoutCommand" -> options.id = "" \/ options.code = <<>>
    [] op = "awaitedCommand" -> options.awaited = "" \/ options.code = <<>>
    [] op = "addCallback"    ->
         \/ options.name = ""
         \/ options.type = "aoitelegram" /\ options.code = <<>>
         \/ options.type = "js" /\ options.callback = ""

\* C21: addCommand, addAction, timeoutCommand, awaitedCommand and addCallback
\* throw AoijsError when the naming option, the code, or the option the type
\* of a callback asks for is missing, and then no handler registry and not
\* the commands of the client have changed.
C21_MissingOptionRejected ==
  [][/\ lastOp'.op \in CommandMethods
     /\ missesOption(lastOp'.op, lastOp'.arg[1])
     => lastOp'.threw = "parameter" /\ registries' = registries]_vars

\* addCallback was refused a 'js' description with no callback, on a client
\* that holds commands
C21_Witness ==
  /\ lastOp.op = "addCallback"
  /\ lastOp.arg[1].name # ""
  /\ lastOp.arg[1].type = "js"
  /\ lastOp.arg[1].callback = ""
  /\ lastOp.threw = "parameter"
  /\ commands # <<>>

\* two dispatches in flight at once: one has thrown and the other has gone
\* on to the end of its source
C12_Witness ==
  \E t, u \in TaskIds :
    /\ tasks[t].status = "thrown"
    /\ tasks[u].status = "returned"
    /\ tasks[u].output = <<"A", "A">>

\* C10, its case: the evaluation had output when AoiStopping aborted it
C10_Witness ==
  \E t \in TaskIds :
    /\ tasks[t].status = "settled"
    /\ tasks[t].error = "AoiStopping"
    /\ tasks[t].logged = "AoiStopping"
    /\ tasks[t].output = <<"A">>
    /\ tasks[t].value = undefinedValue

-----------------------------------------------------------------------------
(* Properties of the handlers *)

\* the names whose descriptor the last call of the registry API replaced
replaced ==
  { n \in DOMAIN lastOp.before \cap DOMAIN availableFunctions :
      availableFunctions[n] # lastOp.before[n] }

\* C8: the descriptor registered under a name is replaced by another one
\* only in a call of editFunction, whatever the host, the loops, the awaiteds
\* and the handlers of the database events do.
C8_OnlyEditReplaces ==
  replaced # {} => lastOp.op = "editFunction"

\* C8, amended: the descriptor registered under a name is replaced only in a
\* call of editFunction or of ensureFunction (the call the loops, the
\* awaiteds and the handlers of the database events make); addFunction and
\* removeFunction replace none.
C8_OnlyEditOrEnsureReplaces ==
  /\ replaced # {} => lastOp.op \in {"editFunction", "ensureFunction"}
  /\ lastOp.op = "addFunction" =>
       \A n \in DOMAIN lastOp.before : get(availableFunctions, n) = lastOp.before[n]

\* C8, its case: the tick of a loop replaced the $index of the host
C8_Witness ==
  /\ lastOp.op = "ensureFunction" /\ lastOp.by = "loopCommand"
  /\ <<"$","i","n","d","e","x">> \in replaced
  /\ lastOp.before[<<"$","i","n","d","e","x">>].callback = "returnsB"
  /\ availableFunctions[<<"$","i","n","d","e","x">>].callback = "currentIndex"

-----------------------------------------------------------------------------
(* Properties of the database functions *)

\* the $setVar callbacks that end in this step
endsSetVar(t) ==
  invocations[t].callee = "$setVar" /\ invocations'[t].callee = "none"

\* C31: $setVar writes the database only after both checks pass.  When the
\* table does not exist the callback signals the invalid table, when the
\* table exists and the variable does not exist in it the callback signals
\* the invalid variable; in both cases the dispatch is aborted and the store
\* is unchanged: nothing is set.
C31_SetVarChecksBeforeSet ==
  [][ /\ \A t \in TaskIds :
           endsSetVar(t) =>
             LET variable == invocations[t].args[1]
                 inTable  == defaultTable(invocations[t].args[3])
             IN  /\ ~databaseHasTable(store, inTable) =>
                      /\ lastOp'.op = "errorTable"
                      /\ tasks'[t].status = "thrown"
                      /\ store' = store
                 /\ /\ databaseHasTable(store, inTable)
                    /\ ~databaseHas(store, inTable, variable)
                    => /\ lastOp'.op = "errorVar"
                       /\ tasks'[t].status = "thrown"
                       /\ store' = store
                 /\ tasks'[t].status = "returned" =>
                      databaseHas(store, inTable, variable)
      /\ store' # store =>
           \E t \in TaskIds : endsSetVar(t) /\ tasks'[t].status = "returned"
    ]_vars

\* the time stored for the cooldown of the user and the command, 0 when none
storedTime(duration) ==
  IF databaseHas(store, defaultTable(""), cooldownKey(duration))
  THEN databaseGet(store, defaultTable(""), cooldownKey(duration))
  ELSE 0

\* C32: of the invocations of $globalCooldown for one cooldown key at most
\* one proceeds within one cooldown window, however two dispatches of the
\* same user and command are interleaved: an invocation that finds no stored
\* time within the window when it decides stores the current time, and every
\* invocation that decides inside the window of a stored time sends the
\* cooldown message, returns true and leaves the stored time unchanged.
C32_OnePerCooldownWindow ==
  [][ \A t \in TaskIds :
        /\ invocations[t].callee = "$globalCooldown"
        /\ invocations[t].step = "got"
        /\ invocations'[t] # invocations[t]
        => LET duration == invocations[t].args[1] IN
           IF storedTime(duration) + ms(duration) - now > 0
           THEN /\ emitted' = << <<"send", invocations[t].args[2]>> >>
                /\ tasks'[t].status = "returned"
                /\ tasks'[t].output = <<"true">>
                /\ store' = store
           ELSE store' = databaseSet(store, defaultTable(""),
                                     cooldownKey(duration), now)
    ]_vars

====
